---- MODULE Spec2Model ----
(***************************************************************************)
(* Model of the z-tavern realtime speech stack: the binary frame codec     *)
(* (internal/service/speech/protocol.go), the ASR audio send task          *)
(* (volcengine_asr.go), the TTS voice/resource fallback loop               *)
(* (volcengine_tts.go) and the connection pool (connection.go).            *)
(***************************************************************************)
EXTENDS Integers, Sequences, FiniteSets, TLC

VARIABLES
    \* ---- frame codec ----
    frame,        \* the Message handed to EncodeMessage
    wire,         \* the bytes on the wire (input of DecodeMessage)
    decoded,      \* the result of DecodeMessage: (msg, err)
    codecPc,      \* "frame" | "wire" | "decoded"
    declaredLen,  \* bytes consumed by the last successful decode of the untruncated wire
    truncated,    \* the wire was cut short after that decode
    isLast        \* <<b>> once Message.IsLastPacket returned b for the decoded frame, else <<>>

codecVars == <<frame, wire, decoded, codecPc, declaredLen, truncated, isLast>>

VARIABLES
    \* ---- ASR call: TranscribeAudioWS and its send task ----
    audioData,    \* the bytes read from req.AudioData
    asrPc,        \* TranscribeAudioWS: "idle" | "running" | "returned"
    asrErr,       \* the error TranscribeAudioWS returned before starting its tasks ("" = nil)
    asrSent,      \* the frames written to the connection, in order
    asrCtxDone,   \* the call's context is cancelled
    sendPc,       \* sendAudioData: "idle" | "read" | "loop" | "pace" | "done"
    sendI,        \* loop variable i: offset of the next chunk
    sendSeq,      \* the local `sequence`
    sendErr       \* what sendAudioData returned ("" = nil)

asrVars == <<audioData, asrPc, asrErr, asrSent, asrCtxDone, sendPc, sendI, sendSeq, sendErr>>

VARIABLES
    \* ---- TTS call: SynthesizeSpeechWS ----
    ttsReq,        \* the request: Text, Voice, Format
    ttsConfig,     \* the client's config: TTSVoice, credentials present
    upstream,      \* what the synthesis service answers to the n-th handshake ("" = audio)
    ttsPc,         \* "idle" | "loop" | "done"
    speakers,      \* the speaker candidates
    speakerIdx,    \* position of the outer loop (1-based)
    resourceIdx,   \* position of the inner loop (1-based)
    mismatchErr,   \* the inner loop's mismatchErr
    lastMismatch,  \* the outer lastMismatch
    ttsAttempts,   \* every call of synthesizeSpeechWithResource: speaker, resource, error
    ttsResp,       \* the returned response, or NilResp
    ttsErr         \* the returned error, or NilErr

ttsVars == <<ttsReq, ttsConfig, upstream, ttsPc, speakers, speakerIdx, resourceIdx, mismatchErr,
             lastMismatch, ttsAttempts, ttsResp, ttsErr>>

VARIABLES
    \* ---- connection pool: ConnectionManager and ConnectionPool ----
    connections,  \* ConnectionManager.connections: session id -> connection
    closedConns,  \* the connections on which Close() was called
    connSession,  \* every connection created so far -> the session id it was created for
    pingers,      \* the running pingLoop tasks: connection, session id, context
    lastOp,       \* the AddConnection or GetConnection call made by the last step, if any
    maxRetries,   \* options.MaxRetries
    retryPc,      \* ConnectWithRetry: "idle" | "attempt" | "check" | "wait" | "done"
    retrySid,     \* its sessionID argument
    retryCtx,     \* its context (contexts are numbered; 0 = no call yet)
    cancelled,    \* the contexts that are done
    retryI,       \* loop variable i
    lastErr,      \* lastErr
    remaining,    \* seconds left until the time.After channel of the current wait fires
    attempts,     \* number of calls of connect made by this call
    delays,       \* the retryDelay of every wait of this call, in seconds
    retryConn,    \* the returned connection (0 = nil)
    retryErr,     \* the returned error
    cancelAt      \* where the running call was when its context was cancelled

poolVars == <<connections, closedConns, connSession, pingers, lastOp, maxRetries,
              retryPc, retrySid, retryCtx, cancelled, retryI, lastErr, remaining, attempts,
              delays, retryConn, retryErr, cancelAt>>

VARIABLES
    \* ---- voice session: WebSocketHandler.handleWebSocket and its connectionState ----
    connState,    \* the connectionState of the session
    sessPc,       \* handleWebSocket: "new" | "refused" | "open" (in ReadJSON) | "handled" | "closed"
    lastMsg,      \* the inbound message handled by the last step (NoMsg if none)
    lastEnv,      \* what the collaborators answered during that step
    events,       \* the outgoing messages written during that step, in order
    calls,        \* the collaborator calls made during that step, in order
    interims      \* the audio chunks buffered by consecutive interim messages since the buffer was empty

sessVars == <<connState, sessPc, lastMsg, lastEnv, events, calls, interims>>

VARIABLES
    \* ---- ASR call: the receive task and the select loop of TranscribeAudioWS ----
    recvPc,       \* receiveASRResults: "idle" | "select" | "read" | "report" | "exited"
    recvOut,      \* what receiveASRResults returned: "" (nothing yet) | "resp" | an error
    recvCause,    \* the frame that made it return: "" | "terminal" | "error" | ...
    respCh,       \* channel respCh (capacity 1)
    recvErrCh,    \* channel recvErrCh (capacity 1)
    sendErrCh,    \* channel sendErrCh (capacity 1)
    sendDone,     \* the local sendDone of TranscribeAudioWS
    connClosed,   \* the deferred conn.Close() has run
    callerDone,   \* the context passed by the caller is done
    \* ---- TTS attempt: the receive loop of synthesizeSpeechWithResource ----
    ttsWaitPc,    \* "idle" | "select" | "read" | "returned"
    ttsCtxDone,   \* the context of the attempt is done
    ttsWaitErr,   \* the error the attempt returned ("" = nil)
    ttsWaitBuf,   \* number of bytes in audioBuffer
    ttsFrame      \* what the last conn.ReadMessage of the attempt returned

callVars == <<recvPc, recvOut, recvCause, respCh, recvErrCh, sendErrCh, sendDone, connClosed,
              callerDone, ttsWaitPc, ttsCtxDone, ttsWaitErr, ttsWaitBuf, ttsFrame>>

VARIABLES
    \* ---- the remote ends of the pooled connections ----
    peer          \* connection -> "up" | "mute" (answers nothing, writes still succeed locally)
                  \*               | "dead" (the transport is broken: writes fail)

peerVars == <<peer>>

VARIABLES
    \* ---- emotion engine: Analyze and Service.Analyze ----
    emoUser,      \* the user's text of the turn
    emoAi,        \* the assistant's text of the turn
    emoKind,      \* the call made: "" (none yet) | "heuristic" (Analyze) | "service" (Service.Analyze)
    emoEnabled,   \* Service.Enabled() at the call
    emoReply,     \* what the classifier returned to the call
    emoOut,       \* the Guidance returned by the call (Analyze fills its Decision only)
    \* ---- TTS emotion parameters: ComputeEmotionParameters ----
    paramsVoice,    \* the voice argument
    paramsDecision, \* the decision argument
    paramsPc,       \* "idle" | "done"
    paramsOut       \* the returned (enable, label, scale)

emoVars == <<emoUser, emoAi, emoKind, emoEnabled, emoReply, emoOut,
             paramsVoice, paramsDecision, paramsPc, paramsOut>>

VARIABLES
    \* ---- speech routes: RegisterRoutes and the realtime route ----
    collaborators, \* which of the services and stores exist at route registration
    routePc,       \* "new" | "registered"
    wsRoute,       \* what serves GET /speech/ws/{sessionID}: "" | "websocket" | "fallback"
    wsHandler,     \* the fields of the WebSocketHandler built at registration
    wsRequests,    \* number of requests made to the realtime route
    wsStatus,      \* the status of the last request (101 = upgraded), 0 before any
    wsOpen,        \* a realtime session is open
    wsOpened,      \* number of realtime sessions opened so far
    stepResult     \* the last conversation step of the open session: "" | "replied" | its error

routeVars == <<collaborators, routePc, wsRoute, wsHandler, wsRequests, wsStatus, wsOpen,
               wsOpened, stepResult>>

VARIABLES
    \* ---- the transcript kept by receiveASRResults ----
    finalText,    \* the local finalText
    heard,        \* the results of the parsed full server responses, in the order received
    trPc,         \* "idle" | "read" | "returned"
    trErr,        \* the error returned ("" = nil)
    trText        \* the Text of the response returned

transcriptVars == <<finalText, heard, trPc, trErr, trText>>

VARIABLES
    \* ---- the handshakes made with the upstream speech services ----
    handshakes,   \* the headers of every handshake so far, in the order made
    uuidsIssued,  \* the number of ids uuid.New() has returned
    hsPc          \* "idle" | "dial"

handshakeVars == <<handshakes, uuidsIssued, hsPc>>

VARIABLES
    \* ---- one utterance between the web client and the session handler ----
    uttState,       \* the handler's connectionState (NoState: no connection)
    toServer,       \* the messages the client has sent and the handler has not read yet
    toClient,       \* the messages the handler has written and the client has not read yet
    uttSent,        \* the number of audio chunks the client has sent
    uttFinal,       \* the final chunk has been sent
    uttTranscript,  \* the transcript of the utterance's ASR call
    userTurns,      \* the user turns persisted
    modelCalls,     \* the model invocations
    resent          \* the text messages the client has sent

utteranceVars == <<uttState, toServer, toClient, uttSent, uttFinal, uttTranscript, userTurns,
                   modelCalls, resent>>

auxVars == <<transcriptVars, handshakeVars, utteranceVars>>

extVars == <<sessVars, callVars, peerVars, emoVars, routeVars, auxVars>>

\* what the steps of one component leave alone
exceptSess == <<codecVars, asrVars, ttsVars, poolVars, callVars, peerVars, emoVars, routeVars, auxVars>>

exceptCall == <<codecVars, ttsVars, poolVars, sessVars, peerVars, emoVars, routeVars, auxVars>>

exceptPeer == <<codecVars, asrVars, ttsVars, poolVars, sessVars, callVars, emoVars, routeVars, auxVars>>

exceptEmo == <<codecVars, asrVars, ttsVars, poolVars, sessVars, callVars, peerVars, routeVars, auxVars>>

exceptRoute == <<codecVars, asrVars, ttsVars, poolVars, sessVars, callVars, peerVars, emoVars, auxVars>>

exceptAux == <<codecVars, asrVars, ttsVars, poolVars, sessVars, callVars, peerVars, emoVars,
              routeVars>>

exceptTranscript == <<exceptAux, handshakeVars, utteranceVars>>

exceptHandshake == <<exceptAux, transcriptVars, utteranceVars>>

exceptUtterance == <<exceptAux, transcriptVars, handshakeVars>>

vars == <<codecVars, asrVars, ttsVars, poolVars, extVars>>

(***************************************************************************)
(* Bounds                                                                  *)
(***************************************************************************)
MaxPayloadLen == 2
MaxHeaderWords == 2
MaxChunks == 3
MaxConns == 2
MaxCalls == 1
MaxRetryBudget == 3
MaxBuffered == 4
MaxTtsChunks == 2

(***************************************************************************)
(* protocol.go constants                                                   *)
(***************************************************************************)
ProtocolVersion == 1

FullClientRequest == 1
AudioOnlyRequest == 2
FullServerResponse == 9
AudioOnlyServerResponse == 11
ErrorMessage == 15

NoSequenceNumber == 0
PositiveSequenceNumber == 1
LastPacketNoSequence == 2
NegativeSequenceNumber == 3
WithEvent == 4

EventTypeNone == 0
EventTypeStartConnection == 1
EventTypeFinishConnection == 2
EventTypeConnectionStarted == 50
EventTypeConnectionFailed == 51
EventTypeConnectionFinished == 52
EventTypeSessionStarted == 150
EventTypeSessionFinished == 152
EventTypeSessionFailed == 153

NoSerialization == 0
JSONSerialization == 1
NoCompression == 0
GzipCompression == 1

MaxInt32 == 2147483647
MinInt32 == (-2147483647) - 1

(***************************************************************************)
(* Bit and byte arithmetic                                                 *)
(***************************************************************************)
RECURSIVE BitAnd(_, _)
\* a & b on non-negative integers
BitAnd(a, b) ==
    IF a = 0 \/ b = 0 THEN 0
    ELSE (IF a % 2 = 1 /\ b % 2 = 1 THEN 1 ELSE 0) + 2 * BitAnd(a \div 2, b \div 2)

RECURSIVE BitOr(_, _)
\* a | b on non-negative integers
BitOr(a, b) ==
    IF a = 0 THEN b
    ELSE IF b = 0 THEN a
    ELSE (IF a % 2 = 1 \/ b % 2 = 1 THEN 1 ELSE 0) + 2 * BitOr(a \div 2, b \div 2)

\* uint8(x) << 4, truncated to 8 bits
Shl4(x) == (x * 16) % 256

\* uint8(x) >> 4
Shr4(x) == x \div 16

\* binary.BigEndian.PutUint32 of a value below 2^31
PutUint32(v) ==
    <<v \div 16777216, (v \div 65536) % 256, (v \div 256) % 256, v % 256>>

\* binary.BigEndian.PutUint32(buf, uint32(v)) for an int32 v (two's complement)
PutInt32(v) ==
    IF v >= 0 THEN PutUint32(v)
    ELSE LET low == (v + MaxInt32) + 1
             b == PutUint32(low)
         IN <<b[1] + 128, b[2], b[3], b[4]>>

\* binary.BigEndian.Uint32 (the top bit is clear in every value read as a number)
Uint32(b) == b[1] * 16777216 + b[2] * 65536 + b[3] * 256 + b[4]

\* int32(binary.BigEndian.Uint32(b))
Int32(b) ==
    IF b[1] >= 128
    THEN (((b[1] - 128) * 16777216 + b[2] * 65536 + b[3] * 256 + b[4]) - MaxInt32) - 1
    ELSE Uint32(b)

(***************************************************************************)
(* Header and Message                                                      *)
(***************************************************************************)
NewHeader(msgType, flags, serialization, compression) ==
    [ProtocolVersion |-> ProtocolVersion,
     HeaderSize |-> 1,
     MessageType |-> msgType,
     MessageFlags |-> flags,
     SerializationMethod |-> serialization,
     CompressionMethod |-> compression,
     Reserved |-> 0]

NewMessage(header, sequence, event, session, connect, code, payload) ==
    [Header |-> header,
     Sequence |-> sequence,
     EventType |-> event,
     SessionID |-> session,
     ConnectID |-> connect,
     ErrorCode |-> code,
     PayloadSize |-> Len(payload),
     Payload |-> payload]

HeaderEncode(h) ==
    <<BitOr(Shl4(h.ProtocolVersion), h.HeaderSize),
      BitOr(Shl4(h.MessageType), h.MessageFlags),
      BitOr(Shl4(h.SerializationMethod), h.CompressionMethod),
      h.Reserved>>

\* (header, err): err = "" stands for nil
DecodeHeader(data) ==
    IF Len(data) < 4
    THEN [ok |-> FALSE, err |-> "header data too short"]
    ELSE LET header == [ProtocolVersion |-> BitAnd(Shr4(data[1]), 15),
                        HeaderSize |-> BitAnd(data[1], 15),
                        MessageType |-> BitAnd(Shr4(data[2]), 15),
                        MessageFlags |-> BitAnd(data[2], 15),
                        SerializationMethod |-> BitAnd(Shr4(data[3]), 15),
                        CompressionMethod |-> BitAnd(data[3], 15),
                        Reserved |-> data[4]]
         IN IF header.ProtocolVersion # ProtocolVersion
            THEN [ok |-> FALSE, err |-> "unsupported protocol version"]
            ELSE [ok |-> TRUE, err |-> "", header |-> header]

eventSkipsSessionID(event) ==
    event \in {EventTypeStartConnection, EventTypeFinishConnection,
               EventTypeConnectionStarted, EventTypeConnectionFailed,
               EventTypeConnectionFinished}

eventHasConnectID(event) ==
    event \in {EventTypeConnectionStarted, EventTypeConnectionFailed,
               EventTypeConnectionFinished}

\* a 4-byte length followed by the bytes
LengthPrefixed(s) == PutUint32(Len(s)) \o s

EncodeEventBlock(msg) ==
    PutInt32(msg.EventType)
    \o (IF ~eventSkipsSessionID(msg.EventType) THEN LengthPrefixed(msg.SessionID) ELSE <<>>)
    \o (IF eventHasConnectID(msg.EventType) THEN LengthPrefixed(msg.ConnectID) ELSE <<>>)

EncodeMessage(msg) ==
    HeaderEncode(msg.Header)
    \o (IF BitAnd(msg.Header.MessageFlags, 3) \in {PositiveSequenceNumber, NegativeSequenceNumber}
        THEN PutInt32(msg.Sequence) ELSE <<>>)
    \o (IF BitAnd(msg.Header.MessageFlags, WithEvent) = WithEvent
        THEN EncodeEventBlock(msg) ELSE <<>>)
    \o PutUint32(msg.PayloadSize)
    \o msg.Payload

(***************************************************************************)
(* DecodeMessage: a reader position over the input bytes; every stage      *)
(* either advances it or ends the call with an error and no message; a     *)
(* stage reached after an error passes the error on (the early return).    *)
(***************************************************************************)
NilMessage == [nil |-> TRUE]

\* io.ReadFull / binary.Read of n bytes at pos succeeds
Avail(data, pos, n) == pos + n <= Len(data)

Take(data, pos, n) == SubSeq(data, pos + 1, pos + n)

Stage(msg, pos) == [ok |-> TRUE, err |-> "", msg |-> msg, pos |-> pos]

StageErr(err, pos) == [ok |-> FALSE, err |-> err, msg |-> NilMessage, pos |-> pos]

ReadHeader(data) ==
    IF ~Avail(data, 0, 4) THEN StageErr("failed to read header", 0)
    ELSE LET h == DecodeHeader(Take(data, 0, 4))
         IN IF ~h.ok THEN StageErr("failed to decode header", 4)
            ELSE Stage([Header |-> h.header, Sequence |-> 0, EventType |-> EventTypeNone,
                        SessionID |-> <<>>, ConnectID |-> <<>>, ErrorCode |-> 0,
                        PayloadSize |-> 0, Payload |-> <<>>], 4)

ReadExtendedHeader(data, s) ==
    IF ~s.ok THEN s ELSE
    LET extraHeaderBytes == s.msg.Header.HeaderSize * 4 - 4
    IN IF extraHeaderBytes > 0
       THEN IF ~Avail(data, s.pos, extraHeaderBytes)
            THEN StageErr("failed to read extended header", s.pos)
            ELSE Stage(s.msg, s.pos + extraHeaderBytes)
       ELSE s

ReadSequence(data, s) ==
    IF ~s.ok THEN s ELSE
    IF BitAnd(s.msg.Header.MessageFlags, 3) \in {PositiveSequenceNumber, NegativeSequenceNumber}
    THEN IF ~Avail(data, s.pos, 4) THEN StageErr("failed to read sequence", s.pos)
         ELSE Stage([s.msg EXCEPT !.Sequence = Int32(Take(data, s.pos, 4))], s.pos + 4)
    ELSE s

\* a uint32 size followed by that many bytes, stored into the field when size > 0
ReadSized(data, s, field, sizeErr, bodyErr) ==
    IF ~Avail(data, s.pos, 4) THEN StageErr(sizeErr, s.pos)
    ELSE LET b == Take(data, s.pos, 4)
         IN IF b[1] >= 128 THEN StageErr(bodyErr, s.pos + 4)
            ELSE LET size == Uint32(b)
                 IN IF size > 0
                    THEN IF ~Avail(data, s.pos + 4, size) THEN StageErr(bodyErr, s.pos + 4)
                         ELSE Stage([s.msg EXCEPT ![field] = Take(data, s.pos + 4, size)],
                                    s.pos + 4 + size)
                    ELSE Stage(s.msg, s.pos + 4)

ReadSessionID(data, s) ==
    IF ~s.ok THEN s ELSE
    IF ~eventSkipsSessionID(s.msg.EventType)
    THEN ReadSized(data, s, "SessionID", "failed to read session id size", "failed to read session id")
    ELSE s

ReadConnectID(data, s) ==
    IF ~s.ok THEN s ELSE
    IF eventHasConnectID(s.msg.EventType)
    THEN ReadSized(data, s, "ConnectID", "failed to read connect id size", "failed to read connect id")
    ELSE s

ReadEvent(data, s) ==
    IF ~s.ok THEN s ELSE
    IF BitAnd(s.msg.Header.MessageFlags, WithEvent) = WithEvent
    THEN IF ~Avail(data, s.pos, 4) THEN StageErr("failed to read event type", s.pos)
         ELSE LET e == Stage([s.msg EXCEPT !.EventType = Int32(Take(data, s.pos, 4))], s.pos + 4)
              IN ReadConnectID(data, ReadSessionID(data, e))
    ELSE s

ReadErrorCode(data, s) ==
    IF ~s.ok THEN s ELSE
    IF s.msg.Header.MessageType = ErrorMessage
    THEN IF ~Avail(data, s.pos, 4) THEN StageErr("failed to read error code", s.pos)
         ELSE Stage([s.msg EXCEPT !.ErrorCode = Uint32(Take(data, s.pos, 4))], s.pos + 4)
    ELSE s

\* ReadPayload with a plain Read in place of io.ReadFull: a short payload is accepted
ReadPayload_ShortRead(data, s) ==
    IF ~s.ok THEN s ELSE
    IF ~Avail(data, s.pos, 4)
    THEN StageErr("failed to read payload size", s.pos)
    ELSE LET b == Take(data, s.pos, 4)
         IN IF b[1] >= 128 THEN StageErr("failed to read payload", s.pos + 4)
            ELSE LET size == Uint32(b)
                     nread == IF Avail(data, s.pos + 4, size) THEN size ELSE Len(data) - (s.pos + 4)
                 IN Stage([s.msg EXCEPT !.PayloadSize = size,
                                        !.Payload = Take(data, s.pos + 4, nread)],
                          s.pos + 4 + nread)

ReadPayload(data, s) ==
    IF ~s.ok THEN s ELSE
    IF ~Avail(data, s.pos, 4)
    THEN StageErr(IF s.msg.Header.MessageType = ErrorMessage
                  THEN "failed to read error payload size"
                  ELSE "failed to read payload size", s.pos)
    ELSE LET b == Take(data, s.pos, 4)
         IN IF b[1] >= 128 THEN StageErr("failed to read payload", s.pos + 4)
            ELSE LET size == Uint32(b)
                     m == [s.msg EXCEPT !.PayloadSize = size]
                 IN IF size > 0
                    THEN IF ~Avail(data, s.pos + 4, size)
                         THEN StageErr("failed to read payload", s.pos + 4)
                         ELSE Stage([m EXCEPT !.Payload = Take(data, s.pos + 4, size)],
                                    s.pos + 4 + size)
                    ELSE Stage(m, s.pos + 4)

\* (msg, err) plus the number of bytes the reader consumed
DecodeMessage(data) ==
    ReadPayload(data,
        ReadErrorCode(data,
            ReadEvent(data,
                ReadSequence(data,
                    ReadExtendedHeader(data, ReadHeader(data))))))

\* IsLastPacket comparing the whole flag nibble, without masking the event bit
IsLastPacket_NoMask(m) ==
    m.Header.MessageFlags \in {LastPacketNoSequence, NegativeSequenceNumber}

IsLastPacket(m) ==
    BitAnd(m.Header.MessageFlags, 3) \in {LastPacketNoSequence, NegativeSequenceNumber}

IsErrorMessage(m) == m.Header.MessageType = ErrorMessage

CreateFullClientRequest(payload, compression) ==
    NewMessage(NewHeader(FullClientRequest, NoSequenceNumber, JSONSerialization, compression),
               0, EventTypeNone, <<>>, <<>>, 0, payload)

CreateAudioOnlyRequest(audio, sequence, isLastChunk, compression) ==
    LET flags == IF isLastChunk
                 THEN (IF sequence # 0 THEN NegativeSequenceNumber ELSE LastPacketNoSequence)
                 ELSE (IF sequence > 0 THEN PositiveSequenceNumber ELSE NoSequenceNumber)
        seq == IF isLastChunk /\ sequence # 0 THEN -sequence ELSE sequence
    IN NewMessage(NewHeader(AudioOnlyRequest, flags, NoSerialization, compression),
                  seq, EventTypeNone, <<>>, <<>>, 0, audio)

(***************************************************************************)
(* Frame codec: inputs and steps                                           *)
(***************************************************************************)
MessageTypes == {FullClientRequest, AudioOnlyRequest, FullServerResponse,
                 AudioOnlyServerResponse, ErrorMessage}
FlagValues == 0 .. 7
SequenceValues == {MinInt32, -2, 0, 3, MaxInt32}
EventValues == {EventTypeNone, EventTypeStartConnection, EventTypeConnectionStarted,
                EventTypeSessionStarted, EventTypeSessionFinished}
IDValues == {<<>>, <<115, 49>>}
ErrorCodes == {0, 55000000}
PayloadBytes == {0, 200}
HeaderCodings == {<<JSONSerialization, GzipCompression>>, <<NoSerialization, NoCompression>>}
OtherVersions == {0, 2}

Payloads == UNION {[1 .. n -> PayloadBytes] : n \in 0 .. MaxPayloadLen}

\* a frame whose optional fields are set only where its flags and type carry them
Canonical(t, f, seq, ev, sid, cid, code) ==
    /\ (BitAnd(f, 3) \notin {PositiveSequenceNumber, NegativeSequenceNumber} => seq = 0)
    /\ (BitAnd(f, WithEvent) # WithEvent => ev = EventTypeNone /\ sid = <<>> /\ cid = <<>>)
    /\ (eventSkipsSessionID(ev) => sid = <<>>)
    /\ (~eventHasConnectID(ev) => cid = <<>>)
    /\ (t # ErrorMessage => code = 0)

ValidFrames ==
    {NewMessage(NewHeader(x[1], x[2], x[8][1], x[8][2]), x[3], x[4], x[5], x[6], x[7], p) :
        x \in {y \in MessageTypes \X FlagValues \X SequenceValues \X EventValues
                     \X IDValues \X IDValues \X ErrorCodes \X HeaderCodings :
                 Canonical(y[1], y[2], y[3], y[4], y[5], y[6], y[7])},
        p \in Payloads}

NoResult == [ok |-> FALSE, err |-> "not decoded", msg |-> NilMessage, pos |-> 0]

CodecStart ==
    /\ wire = <<>>
    /\ decoded = NoResult
    /\ codecPc = "frame"
    /\ declaredLen = -1
    /\ truncated = FALSE
    /\ isLast = <<>>

\* the codec is not exercised: one fixed frame, never encoded
CodecParked ==
    /\ frame = CreateFullClientRequest(<<>>, NoCompression)
    /\ CodecStart

\* the sender encodes the frame
Encode ==
    /\ codecPc = "frame"
    /\ wire' = EncodeMessage(frame)
    /\ codecPc' = "wire"
    /\ UNCHANGED <<frame, decoded, declaredLen, truncated, isLast>>
    /\ UNCHANGED <<asrVars, ttsVars, poolVars, extVars>>

Untouched == codecPc = "wire" /\ declaredLen = -1 /\ ~truncated /\ wire = EncodeMessage(frame)

\* the peer declares a header of `words` 4-byte words and pads it
PadHeader(words) ==
    /\ Untouched
    /\ wire' = <<BitOr(Shl4(Shr4(wire[1])), words)>> \o SubSeq(wire, 2, 4)
               \o [i \in 1 .. (words * 4 - 4) |-> 0] \o SubSeq(wire, 5, Len(wire))
    /\ UNCHANGED <<frame, decoded, codecPc, declaredLen, truncated, isLast>>
    /\ UNCHANGED <<asrVars, ttsVars, poolVars, extVars>>

\* the peer speaks another protocol version
SetVersion(v) ==
    /\ Untouched
    /\ wire' = [wire EXCEPT ![1] = BitOr(Shl4(v), BitAnd(wire[1], 15))]
    /\ UNCHANGED <<frame, decoded, codecPc, declaredLen, truncated, isLast>>
    /\ UNCHANGED <<asrVars, ttsVars, poolVars, extVars>>

\* the receiver decodes what is on the wire
Decode ==
    /\ codecPc = "wire"
    /\ decoded' = DecodeMessage(wire)
    /\ declaredLen' = IF ~truncated /\ decoded'.ok THEN decoded'.pos ELSE declaredLen
    /\ codecPc' = "decoded"
    /\ UNCHANGED <<frame, wire, truncated, isLast>>
    /\ UNCHANGED <<asrVars, ttsVars, poolVars, extVars>>

\* the transport delivers only the first n bytes of the same input
Truncate(n) ==
    /\ codecPc = "decoded"
    /\ ~truncated
    /\ isLast = <<>>
    /\ n < Len(wire)
    /\ wire' = SubSeq(wire, 1, n)
    /\ truncated' = TRUE
    /\ decoded' = NoResult
    /\ codecPc' = "wire"
    /\ UNCHANGED <<frame, declaredLen, isLast>>
    /\ UNCHANGED <<asrVars, ttsVars, poolVars, extVars>>

\* the receive loop asks whether the decoded frame is terminal
CheckLast ==
    /\ codecPc = "decoded"
    /\ decoded.ok
    /\ isLast = <<>>
    /\ isLast' = <<IsLastPacket(decoded.msg)>>
    /\ UNCHANGED <<frame, wire, decoded, codecPc, declaredLen, truncated>>
    /\ UNCHANGED <<asrVars, ttsVars, poolVars, extVars>>

MaxWireLen == 4 * MaxHeaderWords + 28 + MaxPayloadLen

CodecNext ==
    \/ Encode
    \/ \E words \in 2 .. MaxHeaderWords : PadHeader(words)
    \/ \E v \in OtherVersions : SetVersion(v)
    \/ Decode
    \/ \E n \in 0 .. MaxWireLen : Truncate(n)
    \/ CheckLast

(***************************************************************************)
(* Payload compression (compression.go).  The gzip stream is modelled as a *)
(* container: magic and method bytes, the data, and a length trailer.      *)
(***************************************************************************)
GzipHeader == <<31, 139, 8>>

compressGzip(data) ==
    [ok |-> TRUE, err |-> "", data |-> GzipHeader \o data \o <<Len(data) % 256>>]

decompressGzip(data) ==
    IF Len(data) < Len(GzipHeader) + 1 \/ SubSeq(data, 1, Len(GzipHeader)) # GzipHeader
    THEN [ok |-> FALSE, err |-> "gzip reader creation failed", data |-> <<>>]
    ELSE LET body == SubSeq(data, Len(GzipHeader) + 1, Len(data) - 1)
         IN IF data[Len(data)] # Len(body) % 256
            THEN [ok |-> FALSE, err |-> "gzip read failed", data |-> <<>>]
            ELSE [ok |-> TRUE, err |-> "", data |-> body]

CompressPayload(data, method) ==
    IF method = NoCompression THEN [ok |-> TRUE, err |-> "", data |-> data]
    ELSE IF method = GzipCompression THEN compressGzip(data)
    ELSE [ok |-> FALSE, err |-> "unsupported compression method", data |-> <<>>]

DecompressPayload(data, method) ==
    IF method = NoCompression THEN [ok |-> TRUE, err |-> "", data |-> data]
    ELSE IF method = GzipCompression THEN decompressGzip(data)
    ELSE [ok |-> FALSE, err |-> "unsupported compression method", data |-> <<>>]

(***************************************************************************)
(* ASR client: TranscribeAudioWS up to the start of its tasks, and the     *)
(* send task sendAudioData (volcengine_asr.go).                            *)
(***************************************************************************)
chunkSize == 6400
firstSequence == 2

\* the audio inputs: lengths around every multiple of the chunk size
AudioLengths ==
    {n \in {k * chunkSize + dd : k \in 0 .. MaxChunks, dd \in {-1, 0, 1}} : n >= 0}

AudioOf(n) == [k \in 1 .. n |-> k % 256]

\* json.Marshal(asrReq), kept opaque
asrRequestJSON == <<123, 125>>

AsrStart ==
    /\ asrPc = "idle"
    /\ asrErr = ""
    /\ asrSent = <<>>
    /\ asrCtxDone = FALSE
    /\ sendPc = "idle"
    /\ sendI = 0
    /\ sendSeq = 0
    /\ sendErr = ""

AsrParked ==
    /\ audioData = <<>>
    /\ AsrStart

AsrInit ==
    /\ audioData \in {AudioOf(n) : n \in AudioLengths}
    /\ AsrStart

\* TranscribeAudioWS: dial, send the FullClientRequest, start both tasks
TranscribeStart(dialOk, writeOk) ==
    /\ asrPc = "idle"
    /\ IF ~dialOk
       THEN /\ asrPc' = "returned"
            /\ asrErr' = "failed to connect to ASR WebSocket"
            /\ UNCHANGED <<asrSent, sendPc>>
       ELSE LET compressed == CompressPayload(asrRequestJSON, GzipCompression)
                message == CreateFullClientRequest(compressed.data, GzipCompression)
            IN IF ~compressed.ok
               THEN /\ asrPc' = "returned"
                    /\ asrErr' = "failed to compress payload"
                    /\ UNCHANGED <<asrSent, sendPc>>
               ELSE IF ~writeOk
               THEN /\ asrPc' = "returned"
                    /\ asrErr' = "failed to send ASR request"
                    /\ UNCHANGED <<asrSent, sendPc>>
               ELSE /\ asrSent' = Append(asrSent, message)
                    /\ asrPc' = "running"
                    /\ sendPc' = "read"
                    /\ UNCHANGED asrErr
    /\ UNCHANGED <<audioData, asrCtxDone, sendI, sendSeq, sendErr>>
    /\ UNCHANGED <<codecVars, ttsVars, poolVars, extVars>>

\* sendAudioData: read all of req.AudioData and reject empty audio
SendReadAll ==
    /\ sendPc = "read"
    /\ IF Len(audioData) = 0
       THEN /\ sendErr' = "no audio data to send"
            /\ sendPc' = "done"
            /\ UNCHANGED <<sendI, sendSeq>>
       ELSE /\ sendI' = 0
            /\ sendSeq' = firstSequence
            /\ sendPc' = "loop"
            /\ UNCHANGED sendErr
    /\ UNCHANGED <<audioData, asrPc, asrErr, asrSent, asrCtxDone>>
    /\ UNCHANGED <<codecVars, ttsVars, poolVars, extVars>>

ChunkEnd(i, len) == IF i + chunkSize > len THEN len ELSE i + chunkSize

\* IsLastChunk with a strict comparison: a chunk ending exactly at the end is not last
IsLastChunk_Strict(end, len) == end > len

IsLastChunk(end, len) == end >= len

\* one loop body up to the pacing select: build, encode and write one chunk
SendChunk(writeOk) ==
    /\ sendPc = "loop"
    /\ LET end == ChunkEnd(sendI, Len(audioData))
           chunk == SubSeq(audioData, sendI + 1, end)
           isLastChunk == IsLastChunk(end, Len(audioData))
           compressedChunk == CompressPayload(chunk, GzipCompression)
           audioMsg == CreateAudioOnlyRequest(compressedChunk.data, sendSeq, isLastChunk,
                                              GzipCompression)
       IN IF ~compressedChunk.ok
          THEN /\ sendErr' = "failed to compress audio chunk"
               /\ sendPc' = "done"
               /\ UNCHANGED <<asrSent, sendSeq>>
          ELSE IF ~writeOk
          THEN /\ sendErr' = "failed to send audio chunk"
               /\ sendPc' = "done"
               /\ UNCHANGED <<asrSent, sendSeq>>
          ELSE /\ asrSent' = Append(asrSent, audioMsg)
               /\ sendSeq' = sendSeq + 1
               /\ sendPc' = IF isLastChunk THEN "done" ELSE "pace"
               /\ UNCHANGED sendErr
    /\ UNCHANGED <<audioData, asrPc, asrErr, asrCtxDone, sendI>>
    /\ UNCHANGED <<codecVars, ttsVars, poolVars, extVars>>

\* the pacing select takes the timer branch; the for statement advances i
SendPaceElapsed ==
    /\ sendPc = "pace"
    /\ sendI' = sendI + chunkSize
    /\ sendPc' = IF sendI' < Len(audioData) THEN "loop" ELSE "done"
    /\ UNCHANGED <<audioData, asrPc, asrErr, asrSent, asrCtxDone, sendSeq, sendErr>>
    /\ UNCHANGED <<codecVars, ttsVars, poolVars, extVars>>

\* the pacing select takes the ctx.Done() branch
SendPaceCancelled ==
    /\ sendPc = "pace"
    /\ asrCtxDone
    /\ sendErr' = "context canceled"
    /\ sendPc' = "done"
    /\ UNCHANGED <<audioData, asrPc, asrErr, asrSent, asrCtxDone, sendI, sendSeq>>
    /\ UNCHANGED <<codecVars, ttsVars, poolVars, extVars>>

\* the call's context is cancelled (by the caller, or by the receive side)
AsrCancel ==
    /\ asrPc = "running"
    /\ ~asrCtxDone
    /\ asrCtxDone' = TRUE
    /\ UNCHANGED <<audioData, asrPc, asrErr, asrSent, sendPc, sendI, sendSeq, sendErr>>
    /\ UNCHANGED <<codecVars, ttsVars, poolVars, extVars>>

AsrNext ==
    \/ \E dialOk \in BOOLEAN, writeOk \in BOOLEAN : TranscribeStart(dialOk, writeOk)
    \/ SendReadAll
    \/ \E writeOk \in BOOLEAN : SendChunk(writeOk)
    \/ SendPaceElapsed
    \/ SendPaceCancelled
    \/ AsrCancel

(***************************************************************************)
(* Strings (package strings), on ASCII text                                *)
(***************************************************************************)
Upper == "ABCDEFGHIJKLMNOPQRSTUVWXYZ"
Lower == "abcdefghijklmnopqrstuvwxyz"

CharAt(str, i) == SubSeq(str, i, i)

LowerChar(c) ==
    IF \E i \in 1 .. 26 : CharAt(Upper, i) = c
    THEN CharAt(Lower, CHOOSE i \in 1 .. 26 : CharAt(Upper, i) = c)
    ELSE c

RECURSIVE ToLower(_)
ToLower(str) ==
    IF Len(str) = 0 THEN "" ELSE LowerChar(CharAt(str, 1)) \o ToLower(Tail(str))

IsSpace(c) == c = " "

RECURSIVE TrimLeft(_)
TrimLeft(str) ==
    IF Len(str) > 0 /\ IsSpace(CharAt(str, 1)) THEN TrimLeft(Tail(str)) ELSE str

RECURSIVE TrimRight(_)
TrimRight(str) ==
    IF Len(str) > 0 /\ IsSpace(CharAt(str, Len(str)))
    THEN TrimRight(SubSeq(str, 1, Len(str) - 1)) ELSE str

TrimSpace(str) == TrimRight(TrimLeft(str))

HasPrefix(str, prefix) ==
    Len(str) >= Len(prefix) /\ SubSeq(str, 1, Len(prefix)) = prefix

Contains(str, substr) ==
    \E i \in 0 .. (Len(str) - Len(substr)) : SubSeq(str, i + 1, i + Len(substr)) = substr

EqualFold(a, b) == ToLower(a) = ToLower(b)

(***************************************************************************)
(* TTS client: voice and resource candidates, and the fallback loop of     *)
(* SynthesizeSpeechWS (volcengine_tts.go)                                  *)
(***************************************************************************)
defaultResource == "volc.service_type.10029"
megaResource == "volc.megatts.default"
seedResource == "seed-tts-2.0"

seedHints == <<"bigtts", "seed", "megatts", "uranus", "venus", "jupiter", "saturn",
               "neptune", "mercury", "pluto", "mars">>

\* resolveTTSResourceCandidates without the loop over seedHints
resolveTTSResourceCandidates_NoHints(voiceIn) ==
    LET voice == TrimSpace(voiceIn)
    IN IF voice = "" THEN <<defaultResource, seedResource>>
       ELSE IF HasPrefix(voice, "S_") THEN <<megaResource>>
       ELSE <<defaultResource, seedResource>>

resolveTTSResourceCandidates(voiceIn) ==
    LET voice == TrimSpace(voiceIn)
    IN IF voice = "" THEN <<defaultResource, seedResource>>
       ELSE IF HasPrefix(voice, "S_") THEN <<megaResource>>
       ELSE IF \E i \in 1 .. Len(seedHints) : Contains(ToLower(voice), seedHints[i])
            THEN <<seedResource, defaultResource>>
            ELSE <<defaultResource, seedResource>>

aliasKeys == {"hogwarts-young-hero", "athens-wise-mentor", "stark-industries", "tavern-guide",
              "default", "en_default", "zh_female_vv_uranus_bigtts",
              "zh_male_m392_conversation", "zh_male_m392_conversation_wvae_bigtts"}

aliasMap(fallback) ==
    [k \in aliasKeys |->
        CASE k = "hogwarts-young-hero" -> "zh_male_M392_conversation_wvae_bigtts"
          [] k = "athens-wise-mentor" -> "zh_male_M392_conversation_wvae_bigtts"
          [] k = "stark-industries" -> "zh_male_M392_conversation_wvae_bigtts"
          [] k = "tavern-guide" -> "zh_female_vv_venus_bigtts"
          [] k = "default" -> fallback
          [] k = "en_default" -> "en_female_amy_jupiter_bigtts"
          [] k = "zh_female_vv_uranus_bigtts" -> "zh_female_vv_uranus_bigtts"
          [] k = "zh_male_m392_conversation" -> "zh_male_M392_conversation_wvae_bigtts"
          [] k = "zh_male_m392_conversation_wvae_bigtts" -> "zh_male_M392_conversation_wvae_bigtts"]

\* the closure `add` of resolveTTSSpeakerCandidates
addCandidate(candidates, str, fallback) ==
    LET t == TrimSpace(str)
        mapped == IF ToLower(t) \in aliasKeys THEN aliasMap(fallback)[ToLower(t)] ELSE t
    IN IF t = "" THEN candidates
       ELSE IF \E i \in 1 .. Len(candidates) : EqualFold(candidates[i], mapped) THEN candidates
       ELSE Append(candidates, mapped)

resolveTTSSpeakerCandidates(requested, fallback) ==
    LET candidates == addCandidate(addCandidate(<<>>, requested, fallback), fallback, fallback)
    IN IF Len(candidates) = 0 THEN <<fallback>> ELSE candidates

mismatchPhrase == "resource ID is mismatched with speaker related resource"

NilErr == [msg |-> "", attempt |-> 0]
NilResp == [attempt |-> 0, Format |-> "", speaker |-> "", resourceID |-> ""]

\* isResourceMismatchError that never recognises the mismatch
isResourceMismatchError_Never(err) == FALSE

\* isResourceMismatchError that takes every error for a mismatch
isResourceMismatchError_Any(err) == err # NilErr

isResourceMismatchError(err) ==
    IF err = NilErr THEN FALSE ELSE Contains(err.msg, mismatchPhrase)

\* the errors one attempt (synthesizeSpeechWithResource) can end with
AttemptErrors ==
    {"TTS error: " \o mismatchPhrase,
     "TTS API error 55000000: " \o mismatchPhrase,
     "TTS error: quota exceeded",
     "failed to read TTS response: EOF"}

RequestVoices == {"", "default", "Tavern-Guide ", "S_clone01", "S_seed01", "plain_voice",
                  "ZH_FEMALE_VV_VENUS_BIGTTS"}
ConfigVoices == {"", "zh_female_vv_venus_bigtts", "plain_voice", "tavern-guide"}
RequestTexts == {" ", "hello"}
RequestFormats == {"", "wav", "pcm"}

TtsStart ==
    /\ ttsPc = "idle"
    /\ upstream = <<>>
    /\ speakers = <<>>
    /\ speakerIdx = 0
    /\ resourceIdx = 0
    /\ mismatchErr = NilErr
    /\ lastMismatch = NilErr
    /\ ttsAttempts = <<>>
    /\ ttsResp = NilResp
    /\ ttsErr = NilErr

TtsParked ==
    /\ ttsReq = [Text |-> "", Voice |-> "", Format |-> ""]
    /\ ttsConfig = [TTSVoice |-> "", credentials |-> FALSE]
    /\ TtsStart

TtsInit ==
    /\ ttsReq \in [Text : RequestTexts, Voice : RequestVoices, Format : RequestFormats]
    /\ ttsConfig \in [TTSVoice : ConfigVoices, credentials : BOOLEAN]
    /\ TtsStart

\* the voice x resource candidates in the order the loops visit them
RECURSIVE CandidateList(_)
CandidateList(spks) ==
    IF Len(spks) = 0 THEN <<>>
    ELSE LET res == resolveTTSResourceCandidates(Head(spks))
         IN [i \in 1 .. Len(res) |-> [speaker |-> Head(spks), resourceID |-> res[i]]]
            \o CandidateList(Tail(spks))

Encoding(format) ==
    LET encoding == TrimSpace(format)
    IN IF encoding = "" \/ encoding = "wav" THEN "mp3" ELSE encoding

\* SynthesizeSpeechWS up to the first attempt
SynthesizeStart ==
    /\ ttsPc = "idle"
    /\ IF TrimSpace(ttsReq.Text) = ""
       THEN /\ ttsErr' = [msg |-> "TTS text is empty", attempt |-> 0]
            /\ ttsPc' = "done"
            /\ UNCHANGED <<speakers, upstream, speakerIdx, resourceIdx>>
       ELSE IF ~ttsConfig.credentials
       THEN /\ ttsErr' = [msg |-> "missing AppID or AccessToken", attempt |-> 0]
            /\ ttsPc' = "done"
            /\ UNCHANGED <<speakers, upstream, speakerIdx, resourceIdx>>
       ELSE /\ speakers' = resolveTTSSpeakerCandidates(TrimSpace(ttsReq.Voice),
                                                      TrimSpace(ttsConfig.TTSVoice))
            /\ upstream' \in [1 .. Len(CandidateList(speakers')) -> AttemptErrors \cup {""}]
            /\ speakerIdx' = 1
            /\ resourceIdx' = 1
            /\ ttsPc' = "loop"
            /\ UNCHANGED ttsErr
    /\ UNCHANGED <<ttsReq, ttsConfig, mismatchErr, lastMismatch, ttsAttempts, ttsResp>>
    /\ UNCHANGED <<codecVars, asrVars, poolVars, extVars>>

genericError(spk) ==
    [msg |-> "TTS synthesis failed: no compatible resource id or speaker for voice candidates",
     attempt |-> 0]

\* the loop's exit returning the generic error although a mismatch was recorded
ExhaustedError_Generic(lastM, spk) == genericError(spk)

\* the error returned after the outer loop
ExhaustedError(lastM, spk) == IF lastM # NilErr THEN lastM ELSE genericError(spk)

\* one attempt and the loop control that follows it
Attempt ==
    /\ ttsPc = "loop"
    /\ LET speaker == speakers[speakerIdx]
           errMsg == upstream[Len(ttsAttempts) + 1]
           resourceCandidates == resolveTTSResourceCandidates(speaker)
           resourceID == resourceCandidates[resourceIdx]
           n == Len(ttsAttempts) + 1
           attemptErr == IF errMsg = "" THEN NilErr ELSE [msg |-> errMsg, attempt |-> n]
           resp == [attempt |-> n, Format |-> Encoding(ttsReq.Format),
                    speaker |-> speaker, resourceID |-> resourceID]
       IN /\ ttsAttempts' = Append(ttsAttempts,
                [speaker |-> speaker, resourceID |-> resourceID, err |-> attemptErr])
          /\ IF attemptErr = NilErr
             THEN /\ ttsResp' = resp
                  /\ ttsPc' = "done"
                  /\ UNCHANGED <<ttsErr, speakerIdx, resourceIdx, mismatchErr, lastMismatch>>
             ELSE IF isResourceMismatchError(attemptErr)
             THEN IF resourceIdx < Len(resourceCandidates)
                  THEN /\ mismatchErr' = attemptErr
                       /\ resourceIdx' = resourceIdx + 1
                       /\ UNCHANGED <<ttsResp, ttsErr, ttsPc, speakerIdx, lastMismatch>>
                  ELSE /\ lastMismatch' = attemptErr
                       /\ mismatchErr' = NilErr
                       /\ IF speakerIdx < Len(speakers)
                          THEN /\ speakerIdx' = speakerIdx + 1
                               /\ resourceIdx' = 1
                               /\ UNCHANGED <<ttsResp, ttsErr, ttsPc>>
                          ELSE /\ ttsErr' = ExhaustedError(lastMismatch', speakers)
                               /\ ttsPc' = "done"
                               /\ UNCHANGED <<ttsResp, speakerIdx, resourceIdx>>
             ELSE /\ ttsErr' = attemptErr
                  /\ ttsPc' = "done"
                  /\ UNCHANGED <<ttsResp, speakerIdx, resourceIdx, mismatchErr, lastMismatch>>
    /\ UNCHANGED <<ttsReq, ttsConfig, upstream, speakers>>
    /\ UNCHANGED <<codecVars, asrVars, poolVars, extVars>>

TtsNext ==
    \/ SynthesizeStart
    \/ Attempt

(***************************************************************************)
(* Connection pool (connection.go).  Connections are numbered in creation  *)
(* order; time is counted in seconds.                                      *)
(***************************************************************************)
Sessions == {"s1", "s2"}

NoOp == [op |-> "none", sid |-> "", conn |-> 0, old |-> 0]
NoError == [kind |-> "nil"]
CtxError == [kind |-> "context canceled"]
NoCancel == [pc |-> "none", attempts |-> 0, remaining |-> 0]

\* ConnectionManager.AddConnection: the new map and the new set of closed connections
\* AddConnection that overwrites the entry without closing the old connection
AddConnection_NoClose(conns, closed, sessionID, conn) ==
    [connections |-> [s \in DOMAIN conns \cup {sessionID} |->
                         IF s = sessionID THEN conn ELSE conns[s]],
     closed |-> closed]

AddConnection(conns, closed, sessionID, conn) ==
    [connections |-> [s \in DOMAIN conns \cup {sessionID} |->
                         IF s = sessionID THEN conn ELSE conns[s]],
     closed |-> IF sessionID \in DOMAIN conns THEN closed \cup {conns[sessionID]} ELSE closed]

\* ConnectionManager.GetConnection: (conn, exists)
GetConnection(conns, sessionID) ==
    IF sessionID \in DOMAIN conns THEN <<conns[sessionID], TRUE>> ELSE <<0, FALSE>>

RemoveConnection(conns, closed, sessionID) ==
    IF sessionID \in DOMAIN conns
    THEN [connections |-> [s \in DOMAIN conns \ {sessionID} |-> conns[s]],
          closed |-> closed \cup {conns[sessionID]}]
    ELSE [connections |-> conns, closed |-> closed]

CloseAll(conns, closed) ==
    [connections |-> <<>>, closed |-> closed \cup {conns[s] : s \in DOMAIN conns}]

StoredOr0(sid) == IF sid \in DOMAIN connections THEN connections[sid] ELSE 0

NewConn == Cardinality(DOMAIN connSession) + 1

PoolInit ==
    /\ connections = <<>>
    /\ closedConns = {}
    /\ connSession = <<>>
    /\ pingers = {}
    /\ lastOp = NoOp
    /\ retryPc = "idle"
    /\ retrySid = ""
    /\ retryCtx = 0
    /\ cancelled = {}
    /\ retryI = 0
    /\ lastErr = NoError
    /\ remaining = 0
    /\ attempts = 0
    /\ delays = <<>>
    /\ retryConn = 0
    /\ retryErr = NoError
    /\ cancelAt = NoCancel

PoolParked == maxRetries = 0 /\ PoolInit

retryVars == <<maxRetries, retryPc, retrySid, retryCtx, cancelled, retryI, lastErr, remaining,
               attempts, delays, retryConn, retryErr, cancelAt>>

\* a caller adds a connection it has just dialled
ManagerAdd(sid) ==
    /\ NewConn <= MaxConns
    /\ LET r == AddConnection(connections, closedConns, sid, NewConn)
       IN /\ connections' = r.connections
          /\ closedConns' = r.closed
    /\ connSession' = [c \in DOMAIN connSession \cup {NewConn} |->
                          IF c = NewConn THEN sid ELSE connSession[c]]
    /\ lastOp' = [op |-> "add", sid |-> sid, conn |-> NewConn, old |-> StoredOr0(sid)]
    /\ UNCHANGED pingers
    /\ UNCHANGED retryVars
    /\ UNCHANGED <<codecVars, asrVars, ttsVars, extVars>>

ManagerGet(sid) ==
    /\ lastOp' = [op |-> "get", sid |-> sid, conn |-> GetConnection(connections, sid)[1],
                  old |-> 0]
    /\ UNCHANGED <<connections, closedConns, connSession, pingers>>
    /\ UNCHANGED retryVars
    /\ UNCHANGED <<codecVars, asrVars, ttsVars, extVars>>

ManagerRemove(sid) ==
    /\ LET r == RemoveConnection(connections, closedConns, sid)
       IN /\ connections' = r.connections
          /\ closedConns' = r.closed
    /\ lastOp' = NoOp
    /\ UNCHANGED <<connSession, pingers>>
    /\ UNCHANGED retryVars
    /\ UNCHANGED <<codecVars, asrVars, ttsVars, extVars>>

\* ConnectionPool.Cleanup
Cleanup ==
    /\ LET r == CloseAll(connections, closedConns)
       IN /\ connections' = r.connections
          /\ closedConns' = r.closed
    /\ lastOp' = NoOp
    /\ UNCHANGED <<connSession, pingers>>
    /\ UNCHANGED retryVars
    /\ UNCHANGED <<codecVars, asrVars, ttsVars, extVars>>

\* for i := 0; i < cp.options.MaxRetries; i++ with one iteration too many
LoopContinues_OneMore(i, budget) == i <= budget

\* the loop condition of ConnectWithRetry
LoopContinues(i, budget) == i < budget

\* retryDelay, in seconds
RetryDelay(i) == i + 1

\* fmt.Errorf("failed to connect after %d retries, last error: %w", MaxRetries, lastErr)
ExhaustedErr(budget, last) ==
    [kind |-> "failed to connect after retries", retries |-> budget, wrapped |-> last]

\* the select of the backoff wait reduced to a plain sleep
SelectBranches_TimerOnly(ctxDone, timerFired) ==
    IF timerFired THEN {"timer"} ELSE {}

\* the branches of the backoff select that are ready
SelectBranches(ctxDone, timerFired) ==
    (IF ctxDone THEN {"cancel"} ELSE {}) \cup (IF timerFired THEN {"timer"} ELSE {})

\* the loop head: another iteration, or the return after the loop
LoopHead(i) ==
    IF LoopContinues(i, maxRetries)
    THEN /\ retryPc' = "attempt"
         /\ UNCHANGED retryErr
    ELSE /\ retryPc' = "done"
         /\ retryErr' = ExhaustedErr(maxRetries, lastErr)

\* a caller starts ConnectWithRetry with a context of its own
ConnectWithRetry(sid) ==
    /\ retryPc \in {"idle", "done"}
    /\ retryCtx < MaxCalls
    /\ retryCtx' = retryCtx + 1
    /\ retrySid' = sid
    /\ retryI' = 0
    /\ lastErr' = NoError
    /\ remaining' = 0
    /\ attempts' = 0
    /\ delays' = <<>>
    /\ retryConn' = 0
    /\ cancelAt' = NoCancel
    /\ IF LoopContinues(0, maxRetries)
       THEN retryPc' = "attempt" /\ retryErr' = NoError
       ELSE retryPc' = "done" /\ retryErr' = ExhaustedErr(maxRetries, NoError)
    /\ lastOp' = NoOp
    /\ UNCHANGED <<connections, closedConns, connSession, pingers, maxRetries, cancelled>>
    /\ UNCHANGED <<codecVars, asrVars, ttsVars, extVars>>

\* cp.connect: one dial; on success the connection is pooled and its pingLoop started
ConnectAttempt(dialOk) ==
    /\ retryPc = "attempt"
    /\ dialOk => (retryCtx \notin cancelled /\ NewConn <= MaxConns)
    /\ attempts' = attempts + 1
    /\ IF dialOk
       THEN /\ LET r == AddConnection(connections, closedConns, retrySid, NewConn)
               IN /\ connections' = r.connections
                  /\ closedConns' = r.closed
            /\ connSession' = [c \in DOMAIN connSession \cup {NewConn} |->
                                  IF c = NewConn THEN retrySid ELSE connSession[c]]
            /\ pingers' = pingers \cup {[conn |-> NewConn, sid |-> retrySid, ctx |-> retryCtx]}
            /\ lastOp' = [op |-> "add", sid |-> retrySid, conn |-> NewConn,
                          old |-> StoredOr0(retrySid)]
            /\ retryConn' = NewConn
            /\ retryPc' = "done"
            /\ UNCHANGED lastErr
       ELSE /\ lastErr' = [kind |-> "websocket dial failed", attempt |-> attempts + 1]
            /\ retryPc' = "check"
            /\ lastOp' = NoOp
            /\ UNCHANGED <<connections, closedConns, connSession, pingers, retryConn>>
    /\ UNCHANGED <<maxRetries, retrySid, retryCtx, cancelled, retryI, remaining, delays,
                   retryErr, cancelAt>>
    /\ UNCHANGED <<codecVars, asrVars, ttsVars, extVars>>

\* if ctx.Err() != nil { return } else compute retryDelay and enter the select
CheckCtx ==
    /\ retryPc = "check"
    /\ IF retryCtx \in cancelled
       THEN /\ retryErr' = CtxError
            /\ retryPc' = "done"
            /\ UNCHANGED <<remaining, delays>>
       ELSE /\ remaining' = RetryDelay(retryI)
            /\ delays' = Append(delays, RetryDelay(retryI))
            /\ retryPc' = "wait"
            /\ UNCHANGED retryErr
    /\ lastOp' = NoOp
    /\ UNCHANGED <<connections, closedConns, connSession, pingers, maxRetries, retrySid,
                   retryCtx, cancelled, retryI, lastErr, attempts, retryConn, cancelAt>>
    /\ UNCHANGED <<codecVars, asrVars, ttsVars, extVars>>

\* a second passes while the call is blocked in the select
Tick ==
    /\ retryPc = "wait"
    /\ remaining > 0
    /\ SelectBranches(retryCtx \in cancelled, FALSE) = {}
    /\ remaining' = remaining - 1
    /\ lastOp' = NoOp
    /\ UNCHANGED <<connections, closedConns, connSession, pingers, maxRetries, retryPc,
                   retrySid, retryCtx, cancelled, retryI, lastErr, attempts, delays, retryConn,
                   retryErr, cancelAt>>
    /\ UNCHANGED <<codecVars, asrVars, ttsVars, extVars>>

\* the select takes a ready branch
WaitSelect(branch) ==
    /\ retryPc = "wait"
    /\ branch \in SelectBranches(retryCtx \in cancelled, remaining = 0)
    /\ IF branch = "cancel"
       THEN /\ retryErr' = CtxError
            /\ retryPc' = "done"
            /\ UNCHANGED retryI
       ELSE /\ retryI' = retryI + 1
            /\ LoopHead(retryI + 1)
    /\ lastOp' = NoOp
    /\ UNCHANGED <<connections, closedConns, connSession, pingers, maxRetries, retrySid,
                   retryCtx, cancelled, lastErr, remaining, attempts, delays, retryConn, cancelAt>>
    /\ UNCHANGED <<codecVars, asrVars, ttsVars, extVars>>

\* the owner of a context cancels it
Cancel(ctx) ==
    /\ ctx \in 1 .. retryCtx
    /\ ctx \notin cancelled
    /\ cancelled' = cancelled \cup {ctx}
    /\ cancelAt' = IF ctx = retryCtx /\ retryPc \in {"attempt", "check", "wait"}
                   THEN [pc |-> retryPc, attempts |-> attempts, remaining |-> remaining]
                   ELSE cancelAt
    /\ lastOp' = NoOp
    /\ UNCHANGED <<connections, closedConns, connSession, pingers, maxRetries, retryPc,
                   retrySid, retryCtx, retryI, lastErr, remaining, attempts, delays, retryConn,
                   retryErr>>
    /\ UNCHANGED <<codecVars, asrVars, ttsVars, extVars>>

\* pingLoop: the ticker fires and a ping is written
PingProbe(p, writeOk) ==
    /\ p \in pingers
    /\ writeOk => p.conn \notin closedConns
    /\ IF writeOk
       THEN /\ lastOp' = NoOp
            /\ UNCHANGED <<connections, closedConns, pingers>>
       ELSE /\ LET r == RemoveConnection(connections, closedConns, p.sid)
               IN /\ connections' = r.connections
                  /\ closedConns' = r.closed
            /\ pingers' = pingers \ {p}
            /\ lastOp' = NoOp
    /\ UNCHANGED connSession
    /\ UNCHANGED retryVars
    /\ UNCHANGED <<codecVars, asrVars, ttsVars, extVars>>

\* pingLoop: ctx.Done() is taken
PingStop(p) ==
    /\ p \in pingers
    /\ p.ctx \in cancelled
    /\ pingers' = pingers \ {p}
    /\ lastOp' = NoOp
    /\ UNCHANGED <<connections, closedConns, connSession>>
    /\ UNCHANGED retryVars
    /\ UNCHANGED <<codecVars, asrVars, ttsVars, extVars>>

PoolNext ==
    \/ \E sid \in Sessions : ManagerAdd(sid)
    \/ \E sid \in Sessions : ManagerGet(sid)
    \/ \E sid \in Sessions : ManagerRemove(sid)
    \/ Cleanup
    \/ \E sid \in Sessions : ConnectWithRetry(sid)
    \/ \E dialOk \in BOOLEAN : ConnectAttempt(dialOk)
    \/ CheckCtx
    \/ Tick
    \/ \E branch \in {"cancel", "timer"} : WaitSelect(branch)
    \/ \E ctx \in 1 .. MaxCalls : Cancel(ctx)
    \/ \E p \in pingers, writeOk \in BOOLEAN : PingProbe(p, writeOk)
    \/ \E p \in pingers : PingStop(p)

(***************************************************************************)
(* Voice session (WebSocketHandler): the connectionState of one session    *)
(* and the handling of one inbound message per step.  Handlers are         *)
(* operators from the state before to the state after, the outgoing        *)
(* messages written and the collaborator calls made.                       *)
(***************************************************************************)
SessionID == "s1"

\* persona.Store: the known persona ids and their VoiceID
PersonaVoice == [p \in {"p1", "p2"} |-> IF p = "p1" THEN "v1" ELSE "v2"]

FindByID(id) == id \in DOMAIN PersonaVoice

newConnectionState(sessionID, persona) ==
    [sessionID |-> sessionID, persona |-> persona, language |-> "zh-CN",
     voice |-> PersonaVoice[persona], asrEnabled |-> TRUE, ttsEnabled |-> TRUE,
     streamMode |-> TRUE, audioFormat |-> "", buffer |-> <<>>]

\* a *bool field of ConfigMessage: <<>> is nil, <<b>> points to b
BoolPtrs == {<<>>, <<TRUE>>, <<FALSE>>}

\* applyConfig on a copy of the state: the caller's state is left as it was
applyConfig_ByValue(st, cfg) == st

\* applyConfig that assigns the language and the voice even when they are empty
applyConfig_Overwrite(st, cfg) ==
    LET s2 == [st EXCEPT !.language = cfg.Language, !.voice = cfg.Voice]
        s3 == IF cfg.PersonaID # "" /\ cfg.PersonaID # s2.persona /\ FindByID(cfg.PersonaID)
              THEN [s2 EXCEPT !.persona = cfg.PersonaID] ELSE s2
        s4 == IF cfg.ASREnabled # <<>> THEN [s3 EXCEPT !.asrEnabled = cfg.ASREnabled[1]] ELSE s3
        s5 == IF cfg.TTSEnabled # <<>> THEN [s4 EXCEPT !.ttsEnabled = cfg.TTSEnabled[1]] ELSE s4
    IN IF cfg.StreamMode # <<>> THEN [s5 EXCEPT !.streamMode = cfg.StreamMode[1]] ELSE s5

applyConfig(st, cfg) ==
    LET s1 == IF cfg.Language # "" THEN [st EXCEPT !.language = cfg.Language] ELSE st
        s2 == IF cfg.Voice # "" THEN [s1 EXCEPT !.voice = cfg.Voice] ELSE s1
        s3 == IF cfg.PersonaID # "" /\ cfg.PersonaID # s2.persona /\ FindByID(cfg.PersonaID)
              THEN [s2 EXCEPT !.persona = cfg.PersonaID] ELSE s2
        s4 == IF cfg.ASREnabled # <<>> THEN [s3 EXCEPT !.asrEnabled = cfg.ASREnabled[1]] ELSE s3
        s5 == IF cfg.TTSEnabled # <<>> THEN [s4 EXCEPT !.ttsEnabled = cfg.TTSEnabled[1]] ELSE s4
    IN IF cfg.StreamMode # <<>> THEN [s5 EXCEPT !.streamMode = cfg.StreamMode[1]] ELSE s5

\* outgoingMessage written by sendInfo / sendError
sendInfo(sessionID, data) == [Type |-> "result", SessionID |-> sessionID, Data |-> data]

sendError(message) == [Type |-> "error", SessionID |-> "", Data |-> [message |-> message]]

\* what a handler did: the state after, the messages written, the calls made
Did(st, evs, cs) == [st |-> st, events |-> evs, calls |-> cs]

handleConfigMessage(st, msg) ==
    IF ~msg.valid
    THEN Did(st, <<sendError("invalid config payload")>>, <<>>)
    ELSE LET after == applyConfig(st, msg.cfg)
         IN Did(after,
                <<sendInfo(after.sessionID,
                           [type |-> "config", persona |-> after.persona,
                            language |-> after.language, voice |-> after.voice,
                            asr |-> after.asrEnabled, tts |-> after.ttsEnabled,
                            streamMode |-> after.streamMode])>>,
                <<>>)

\* base64.StdEncoding.EncodeToString, kept as a tagged value
EncodeToString(bytes) == <<"base64", bytes>>

\* sendTTS that only logs a failure and writes nothing
sendTTS_LogOnly(st, text, env) ==
    LET call == [fn |-> "SynthesizeToBuffer", text |-> text, voice |-> st.voice,
                 language |-> st.language]
    IN IF ~env.tts.ok \/ Len(env.tts.audio) = 0
       THEN [events |-> <<>>, calls |-> <<call>>]
       ELSE [events |-> <<sendInfo(st.sessionID,
                                   [type |-> "tts", audioData |-> EncodeToString(env.tts.audio),
                                    format |-> env.tts.format, isFinal |-> TRUE])>>,
             calls |-> <<call>>]

\* sendTTS: the returned value is only the messages written and the calls made
sendTTS(st, text, env) ==
    LET call == [fn |-> "SynthesizeToBuffer", text |-> text, voice |-> st.voice,
                 language |-> st.language]
    IN IF ~env.tts.ok
       THEN [events |-> <<sendInfo(st.sessionID, [type |-> "tts", error |-> "synthesis failed"])>>,
             calls |-> <<call>>]
       ELSE IF Len(env.tts.audio) = 0
       THEN [events |-> <<>>, calls |-> <<call>>]
       ELSE [events |-> <<sendInfo(st.sessionID,
                                   [type |-> "tts", audioData |-> EncodeToString(env.tts.audio),
                                    format |-> env.tts.format, isFinal |-> TRUE])>>,
             calls |-> <<call>>]

\* schema.ConcatMessages(chunks).Content
RECURSIVE ConcatContent(_)
ConcatContent(chunks) ==
    IF Len(chunks) = 0 THEN "" ELSE Head(chunks) \o ConcatContent(Tail(chunks))

HasContent(chunk) == chunk # ""

\* the ai_delta messages of the receive loop: one per chunk with content
DeltaEvents(sessionID, chunks) ==
    LET withContent == SelectSeq(chunks, HasContent)
    IN [i \in 1 .. Len(withContent) |->
           sendInfo(sessionID, [type |-> "ai_delta", text |-> withContent[i]])]

\* generateAIResponse: (text, err) with the messages written and the calls made
generateAIResponse(st, userText, env) ==
    IF ~env.ai.streaming
    THEN LET call == [fn |-> "GenerateResponse", persona |-> st.persona, text |-> userText]
         IN IF env.ai.err # ""
            THEN [text |-> "", err |-> "ai generation failed: " \o env.ai.err,
                  events |-> <<>>, calls |-> <<call>>]
            ELSE [text |-> ConcatContent(env.ai.chunks), err |-> "",
                  events |-> <<sendInfo(st.sessionID,
                                        [type |-> "ai", text |-> ConcatContent(env.ai.chunks),
                                         isFinal |-> TRUE])>>,
                  calls |-> <<call>>]
    ELSE LET call == [fn |-> "StreamResponse", persona |-> st.persona, text |-> userText]
             deltas == DeltaEvents(st.sessionID, env.ai.chunks)
         IN IF env.ai.err # ""
            THEN [text |-> "", err |-> "ai streaming failed: " \o env.ai.err,
                  events |-> <<>>, calls |-> <<call>>]
            ELSE IF env.ai.recvErr # ""
            THEN [text |-> "", err |-> "ai stream recv failed: " \o env.ai.recvErr,
                  events |-> deltas, calls |-> <<call>>]
            ELSE [text |-> ConcatContent(env.ai.chunks), err |-> "",
                  events |-> Append(deltas,
                                    sendInfo(st.sessionID,
                                             [type |-> "ai", text |-> ConcatContent(env.ai.chunks),
                                              isFinal |-> TRUE])),
                  calls |-> <<call>>]

\* processUserText: the returned error ("" = nil), the messages written, the calls made
processUserText(st, userText, env) ==
    LET load == [fn |-> "LoadTranscript", sessionID |-> st.sessionID]
        saveUser == [fn |-> "SaveMessage", sender |-> "user", content |-> userText]
        userEvent == sendInfo(st.sessionID, [type |-> "user", text |-> userText])
        ai == generateAIResponse(st, userText, env)
        saveAssistant == [fn |-> "SaveMessage", sender |-> "assistant", content |-> ai.text]
        tts == IF st.ttsEnabled /\ ai.text # ""
               THEN sendTTS(st, ai.text, env)
               ELSE [events |-> <<>>, calls |-> <<>>]
    IN IF env.loadErr # ""
       THEN [err |-> "load transcript failed: " \o env.loadErr, events |-> <<>>,
             calls |-> <<load>>]
       ELSE IF env.saveUserErr # ""
       THEN [err |-> "save user message failed: " \o env.saveUserErr, events |-> <<>>,
             calls |-> <<load, saveUser>>]
       ELSE IF ~env.ai.available
       THEN [err |-> "ai service unavailable", events |-> <<userEvent>>,
             calls |-> <<load, saveUser>>]
       ELSE IF ai.err # ""
       THEN [err |-> ai.err, events |-> <<userEvent>> \o ai.events,
             calls |-> <<load, saveUser>> \o ai.calls]
       ELSE [err |-> "", events |-> <<userEvent>> \o ai.events \o tts.events,
             calls |-> <<load, saveUser>> \o ai.calls \o <<saveAssistant>> \o tts.calls]

\* ---- the actions of one conversation step, in the order they are taken ----
Called(call) == [act |-> "call", call |-> call, event |-> <<>>]

Wrote(event) == [act |-> "event", call |-> <<>>, event |-> event]

\* generateAIResponse and sendTTS make their call first and write their messages after it
CallsThenEvents(did) ==
    [i \in 1 .. Len(did.calls) |-> Called(did.calls[i])]
        \o [i \in 1 .. Len(did.events) |-> Wrote(did.events[i])]

\* conversationTrace with the user event written before the user turn is persisted
conversationTrace_EventFirst(st, userText, env) ==
    LET load == [fn |-> "LoadTranscript", sessionID |-> st.sessionID]
        saveUser == [fn |-> "SaveMessage", sender |-> "user", content |-> userText]
        userEvent == sendInfo(st.sessionID, [type |-> "user", text |-> userText])
        ai == generateAIResponse(st, userText, env)
        saveAssistant == [fn |-> "SaveMessage", sender |-> "assistant", content |-> ai.text]
        tts == IF st.ttsEnabled /\ ai.text # ""
               THEN sendTTS(st, ai.text, env)
               ELSE [events |-> <<>>, calls |-> <<>>]
    IN IF env.loadErr # ""
       THEN <<Called(load)>>
       ELSE IF env.saveUserErr # ""
       THEN <<Called(load), Called(saveUser)>>
       ELSE IF ~env.ai.available
       THEN <<Called(load), Wrote(userEvent), Called(saveUser)>>
       ELSE IF ai.err # ""
       THEN <<Called(load), Wrote(userEvent), Called(saveUser)>> \o CallsThenEvents(ai)
       ELSE <<Called(load), Wrote(userEvent), Called(saveUser)>> \o CallsThenEvents(ai)
               \o <<Called(saveAssistant)>> \o CallsThenEvents(tts)

\* processUserText: the calls made and the messages written, in one sequence
conversationTrace(st, userText, env) ==
    LET load == [fn |-> "LoadTranscript", sessionID |-> st.sessionID]
        saveUser == [fn |-> "SaveMessage", sender |-> "user", content |-> userText]
        userEvent == sendInfo(st.sessionID, [type |-> "user", text |-> userText])
        ai == generateAIResponse(st, userText, env)
        saveAssistant == [fn |-> "SaveMessage", sender |-> "assistant", content |-> ai.text]
        tts == IF st.ttsEnabled /\ ai.text # ""
               THEN sendTTS(st, ai.text, env)
               ELSE [events |-> <<>>, calls |-> <<>>]
    IN IF env.loadErr # ""
       THEN <<Called(load)>>
       ELSE IF env.saveUserErr # ""
       THEN <<Called(load), Called(saveUser)>>
       ELSE IF ~env.ai.available
       THEN <<Called(load), Called(saveUser), Wrote(userEvent)>>
       ELSE IF ai.err # ""
       THEN <<Called(load), Called(saveUser), Wrote(userEvent)>> \o CallsThenEvents(ai)
       ELSE <<Called(load), Called(saveUser), Wrote(userEvent)>> \o CallsThenEvents(ai)
               \o <<Called(saveAssistant)>> \o CallsThenEvents(tts)

\* estimateASRConfidence, in hundredths
estimateASRConfidence(text) == IF TrimSpace(text) = "" THEN 0 ELSE 95

\* processBufferedAudio that resets the buffer only once the ASR call has succeeded
processBufferedAudio_KeepOnError(st, env) ==
    LET audioBytes == st.buffer
        reset == [st EXCEPT !.buffer = <<>>]
        format == IF st.audioFormat = "" THEN "wav" ELSE st.audioFormat
        call == [fn |-> "TranscribeBuffer", audio |-> audioBytes, format |-> format,
                 language |-> st.language]
        asrEvent == sendInfo(st.sessionID,
                             [type |-> "asr", text |-> env.asr.text,
                              confidence |-> estimateASRConfidence(env.asr.text),
                              isFinal |-> TRUE])
        turn == processUserText(reset, env.asr.text, env)
    IN IF Len(audioBytes) = 0
       THEN Did(reset, <<>>, <<>>)
       ELSE IF env.asr.err # ""
       THEN Did(st, <<sendError("ASR failed: " \o env.asr.err)>>, <<call>>)
       ELSE IF env.asr.text = ""
       THEN Did(reset, <<asrEvent>>, <<call>>)
       ELSE Did(reset,
                <<asrEvent>> \o turn.events
                    \o (IF turn.err # "" THEN <<sendError(turn.err)>> ELSE <<>>),
                <<call>> \o turn.calls)

\* processBufferedAudio
processBufferedAudio(st, env) ==
    LET audioBytes == st.buffer
        reset == [st EXCEPT !.buffer = <<>>]
        format == IF st.audioFormat = "" THEN "wav" ELSE st.audioFormat
        call == [fn |-> "TranscribeBuffer", audio |-> audioBytes, format |-> format,
                 language |-> st.language]
        asrEvent == sendInfo(st.sessionID,
                             [type |-> "asr", text |-> env.asr.text,
                              confidence |-> estimateASRConfidence(env.asr.text),
                              isFinal |-> TRUE])
        turn == processUserText(reset, env.asr.text, env)
    IN IF Len(audioBytes) = 0
       THEN Did(reset, <<>>, <<>>)
       ELSE IF env.asr.err # ""
       THEN Did(reset, <<sendError("ASR failed: " \o env.asr.err)>>, <<call>>)
       ELSE IF env.asr.text = ""
       THEN Did(reset, <<asrEvent>>, <<call>>)
       ELSE Did(reset,
                <<asrEvent>> \o turn.events
                    \o (IF turn.err # "" THEN <<sendError(turn.err)>> ELSE <<>>),
                <<call>> \o turn.calls)

\* handleAudioMessage that flushes on every message, whatever isFinal and the stream mode
handleAudioMessage_FlushAlways(st, msg, env) ==
    IF ~st.asrEnabled
    THEN Did(st, <<sendInfo(st.sessionID, [type |-> "asr", enabled |-> FALSE])>>, <<>>)
    ELSE IF ~msg.valid
    THEN Did(st, <<sendError("invalid audio payload")>>, <<>>)
    ELSE LET audio == msg.audio
             s1 == IF Len(audio.AudioData) > 0
                   THEN [st EXCEPT !.buffer = st.buffer \o audio.AudioData] ELSE st
             s2 == IF audio.Format # "" THEN [s1 EXCEPT !.audioFormat = audio.Format] ELSE s1
             s3 == IF audio.Language # "" THEN [s2 EXCEPT !.language = audio.Language] ELSE s2
         IN processBufferedAudio(s3, env)

\* handleAudioMessage that flushes on the final message only, whatever the stream mode
handleAudioMessage_FinalOnly(st, msg, env) ==
    IF ~st.asrEnabled
    THEN Did(st, <<sendInfo(st.sessionID, [type |-> "asr", enabled |-> FALSE])>>, <<>>)
    ELSE IF ~msg.valid
    THEN Did(st, <<sendError("invalid audio payload")>>, <<>>)
    ELSE LET audio == msg.audio
             s1 == IF Len(audio.AudioData) > 0
                   THEN [st EXCEPT !.buffer = st.buffer \o audio.AudioData] ELSE st
             s2 == IF audio.Format # "" THEN [s1 EXCEPT !.audioFormat = audio.Format] ELSE s1
             s3 == IF audio.Language # "" THEN [s2 EXCEPT !.language = audio.Language] ELSE s2
         IN IF audio.IsFinal
            THEN processBufferedAudio(s3, env)
            ELSE Did(s3, <<>>, <<>>)

\* handleAudioMessage
handleAudioMessage(st, msg, env) ==
    IF ~st.asrEnabled
    THEN Did(st, <<sendInfo(st.sessionID, [type |-> "asr", enabled |-> FALSE])>>, <<>>)
    ELSE IF ~msg.valid
    THEN Did(st, <<sendError("invalid audio payload")>>, <<>>)
    ELSE LET audio == msg.audio
             s1 == IF Len(audio.AudioData) > 0
                   THEN [st EXCEPT !.buffer = st.buffer \o audio.AudioData] ELSE st
             s2 == IF audio.Format # "" THEN [s1 EXCEPT !.audioFormat = audio.Format] ELSE s1
             s3 == IF audio.Language # "" THEN [s2 EXCEPT !.language = audio.Language] ELSE s2
         IN IF audio.IsFinal \/ ~s3.streamMode
            THEN processBufferedAudio(s3, env)
            ELSE Did(s3, <<>>, <<>>)

\* handleTextMessage
handleTextMessage(st, msg, env) ==
    IF ~msg.valid
    THEN Did(st, <<sendError("invalid text payload")>>, <<>>)
    ELSE IF msg.text = ""
    THEN Did(st, <<>>, <<>>)
    ELSE LET turn == processUserText(st, msg.text, env)
         IN Did(st,
                turn.events \o (IF turn.err # "" THEN <<sendError(turn.err)>> ELSE <<>>),
                turn.calls)

\* handleMessage
handleMessage(st, msg, env) ==
    IF msg.Type = "audio" THEN handleAudioMessage(st, msg, env)
    ELSE IF msg.Type = "text" THEN handleTextMessage(st, msg, env)
    ELSE IF msg.Type = "config" THEN handleConfigMessage(st, msg)
    ELSE Did(st, <<sendError("unsupported message type: " \o msg.Type)>>, <<>>)

\* one iteration of the read loop of handleWebSocket after a successful ReadJSON
HandleInbound(st, msg, env) ==
    IF msg.SessionID # "" /\ msg.SessionID # st.sessionID
    THEN Did(st, <<sendError("session mismatch")>>, <<>>)
    ELSE handleMessage(st, msg, env)

\* ---- inbound messages and collaborator answers ----
NoAudio == [AudioData |-> <<>>, Format |-> "", Language |-> "", IsFinal |-> FALSE]

NoConfig == [PersonaID |-> "", Language |-> "", Voice |-> "", ASREnabled |-> <<>>,
             TTSEnabled |-> <<>>, StreamMode |-> <<>>]

Inbound(type, sessionID, valid, audio, text, cfg) ==
    [Type |-> type, SessionID |-> sessionID, valid |-> valid, audio |-> audio,
     text |-> text, cfg |-> cfg]

NoMsg == Inbound("", "", FALSE, NoAudio, "", NoConfig)

AudioChunks == {<<>>, <<1>>, <<2>>}

\* every chunk without format and language, and one chunk that carries both
AudioMessages ==
    {Inbound("audio", "", TRUE,
             [AudioData |-> a, Format |-> "", Language |-> "", IsFinal |-> f], "", NoConfig) :
        a \in AudioChunks, f \in BOOLEAN}
    \cup
    {Inbound("audio", "", TRUE,
             [AudioData |-> <<1>>, Format |-> "pcm", Language |-> "en-US", IsFinal |-> f], "",
             NoConfig) : f \in BOOLEAN}

TextMessages == {Inbound("text", "", TRUE, NoAudio, t, NoConfig) : t \in {"", "hi"}}

\* every ConfigMessage over the values below
AllConfigs ==
    [PersonaID : {"", "p1", "p2", "px"}, Language : {"", "en-US"}, Voice : {"", "v9"},
     ASREnabled : BoolPtrs, TTSEnabled : BoolPtrs, StreamMode : BoolPtrs]

\* the config messages a session receives: those that set at most one field, and one that sets all
SessionConfigs ==
    {c \in AllConfigs :
        \/ Cardinality({f \in DOMAIN c : c[f] # NoConfig[f]}) <= 1
        \/ c = [PersonaID |-> "p2", Language |-> "en-US", Voice |-> "v9", ASREnabled |-> <<FALSE>>,
                TTSEnabled |-> <<TRUE>>, StreamMode |-> <<FALSE>>]}

ConfigMessages == {Inbound("config", "", TRUE, NoAudio, "", c) : c \in SessionConfigs}

\* payloads that do not unmarshal, an unknown type, another session's id
OddMessages ==
    {Inbound(t, "", FALSE, NoAudio, "", NoConfig) : t \in {"audio", "text", "config"}}
        \cup {Inbound("video", "", TRUE, NoAudio, "", NoConfig),
              Inbound("text", "s2", TRUE, NoAudio, "hi", NoConfig)}

InboundMessages == AudioMessages \cup TextMessages \cup ConfigMessages \cup OddMessages

\* the text of the errors the speech service and the stores return
AsrErrors == {"ASR API error 45000001: invalid audio", "failed to read ASR response: EOF"}

StoreError == "database is locked"

ModelError == "model endpoint returned 429"

AsrAnswers ==
    {[text |-> t, err |-> ""] : t \in {"hello", ""}} \cup {[text |-> "", err |-> e] : e \in AsrErrors}

AiAnswer(available, streaming, err, recvErr, chunks) ==
    [available |-> available, streaming |-> streaming, err |-> err, recvErr |-> recvErr,
     chunks |-> chunks]

AiAnswers ==
    {AiAnswer(FALSE, FALSE, "", "", <<>>),
     AiAnswer(TRUE, FALSE, ModelError, "", <<>>),
     AiAnswer(TRUE, FALSE, "", "", <<"reply">>),
     AiAnswer(TRUE, FALSE, "", "", <<"">>),
     AiAnswer(TRUE, TRUE, "", ModelError, <<"re">>),
     AiAnswer(TRUE, TRUE, "", "", <<"re", "", "ply">>)}

TtsAnswers ==
    {[ok |-> TRUE, audio |-> <<9>>, format |-> "mp3"],
     [ok |-> TRUE, audio |-> <<>>, format |-> "mp3"],
     [ok |-> FALSE, audio |-> <<>>, format |-> ""]}

DefaultEnv ==
    [asr |-> [text |-> "hello", err |-> ""], loadErr |-> "", saveUserErr |-> "",
     ai |-> AiAnswer(TRUE, FALSE, "", "", <<"reply">>), saveAssistantErr |-> "",
     tts |-> [ok |-> TRUE, audio |-> <<9>>, format |-> "mp3"]]

\* the answers given after the step that ends the handling are never asked for
RestDefault(e, fields) == \A f \in fields : e[f] = DefaultEnv[f]

CanonicalEnv(e) ==
    /\ (e.asr.err # "" \/ e.asr.text = "")
          => RestDefault(e, {"loadErr", "saveUserErr", "ai", "saveAssistantErr", "tts"})
    /\ e.loadErr # "" => RestDefault(e, {"saveUserErr", "ai", "saveAssistantErr", "tts"})
    /\ e.saveUserErr # "" => RestDefault(e, {"ai", "saveAssistantErr", "tts"})
    /\ (~e.ai.available \/ e.ai.err # "" \/ e.ai.recvErr # "")
          => RestDefault(e, {"saveAssistantErr", "tts"})
    /\ ConcatContent(e.ai.chunks) = "" => RestDefault(e, {"tts"})

Envs ==
    {e \in [asr : AsrAnswers, loadErr : {"", StoreError}, saveUserErr : {"", StoreError},
            ai : AiAnswers, saveAssistantErr : {"", StoreError}, tts : TtsAnswers] :
        CanonicalEnv(e)}

EnvsFor(msg) == IF msg.Type \in {"audio", "text"} /\ msg.valid THEN Envs ELSE {DefaultEnv}

\* ---- the session ----
NoState ==
    [sessionID |-> "", persona |-> "", language |-> "", voice |-> "", asrEnabled |-> FALSE,
     ttsEnabled |-> FALSE, streamMode |-> FALSE, audioFormat |-> "", buffer |-> <<>>]

SessParked ==
    /\ connState = NoState
    /\ sessPc = "closed"
    /\ lastMsg = NoMsg
    /\ lastEnv = DefaultEnv
    /\ events = <<>>
    /\ calls = <<>>
    /\ interims = <<>>

SessInit ==
    /\ connState = NoState
    /\ sessPc = "new"
    /\ lastMsg = NoMsg
    /\ lastEnv = DefaultEnv
    /\ events = <<>>
    /\ calls = <<>>
    /\ interims = <<>>

RECURSIVE Flatten(_)
Flatten(chunks) == IF Len(chunks) = 0 THEN <<>> ELSE Head(chunks) \o Flatten(Tail(chunks))

\* the interim chunks that make up the buffer, if it was filled by interim messages only
InterimRun(st, run) == IF Len(st.buffer) = 0 THEN <<>> ELSE run

\* a valid audio message with data, handled with ASR enabled and stream mode on
StreamedAudio(st, msg) ==
    /\ msg.Type = "audio" /\ msg.valid /\ msg.SessionID \in {"", st.sessionID}
    /\ st.asrEnabled /\ st.streamMode
    /\ Len(msg.audio.AudioData) > 0

NextInterims(st, msg, run) ==
    IF StreamedAudio(st, msg) /\ Flatten(InterimRun(st, run)) = st.buffer
    THEN IF msg.audio.IsFinal THEN InterimRun(st, run)
         ELSE Append(InterimRun(st, run), msg.audio.AudioData)
    ELSE <<>>

\* handleWebSocket up to the read loop
SessionOpen(personaID, upgradeOk) ==
    /\ sessPc = "new"
    /\ IF FindByID(personaID) /\ upgradeOk
       THEN /\ connState' = newConnectionState(SessionID, personaID)
            /\ sessPc' = "open"
            /\ events' = <<sendInfo(SessionID, [type |-> "connected", persona |-> personaID,
                                                language |-> connState'.language])>>
       ELSE /\ sessPc' = "refused"
            /\ UNCHANGED <<connState, events>>
    /\ UNCHANGED <<lastMsg, lastEnv, calls, interims>>
    /\ UNCHANGED exceptSess

\* one iteration of the read loop: ReadJSON returns msg and it is handled to the end
Handle(msg, env) ==
    /\ sessPc = "open"
    /\ Len(connState.buffer) + Len(msg.audio.AudioData) <= MaxBuffered
    /\ LET did == HandleInbound(connState, msg, env)
       IN /\ connState' = did.st
          /\ events' = did.events
          /\ calls' = did.calls
          /\ lastEnv' = IF did.calls = <<>> THEN DefaultEnv ELSE env
    /\ lastMsg' = msg
    /\ interims' = NextInterims(connState, msg, interims)
    /\ sessPc' = "handled"
    /\ UNCHANGED exceptSess

\* the handler has returned: the loop comes back to ReadJSON
LoopBack ==
    /\ sessPc = "handled"
    /\ sessPc' = "open"
    /\ lastMsg' = NoMsg
    /\ lastEnv' = DefaultEnv
    /\ events' = <<>>
    /\ calls' = <<>>
    /\ UNCHANGED <<connState, interims>>
    /\ UNCHANGED exceptSess

\* ReadJSON fails (the client is gone) or the context is done: the handler returns
Disconnect ==
    /\ sessPc = "open"
    /\ sessPc' = "closed"
    /\ connState' = NoState
    /\ lastMsg' = NoMsg
    /\ lastEnv' = DefaultEnv
    /\ events' = <<>>
    /\ calls' = <<>>
    /\ interims' = <<>>
    /\ UNCHANGED exceptSess

SessNext ==
    \/ \E personaID \in {"p1", "p2", "px"}, upgradeOk \in BOOLEAN : SessionOpen(personaID, upgradeOk)
    \/ \E msg \in InboundMessages : \E env \in EnvsFor(msg) : Handle(msg, env)
    \/ LoopBack
    \/ Disconnect


(***************************************************************************)
(* ASR call: the receive task receiveASRResults, the hand-over of both     *)
(* tasks' results through channels and the select loop of                  *)
(* TranscribeAudioWS (volcengine_asr.go); the send task is sendAudioData   *)
(* above.  The receive loop of a TTS attempt (volcengine_tts.go).          *)
(***************************************************************************)
\* no frame read yet
NoTtsFrame == [none |-> TRUE]

CallParked ==
    /\ recvPc = "idle"
    /\ recvOut = ""
    /\ recvCause = ""
    /\ respCh = <<>>
    /\ recvErrCh = <<>>
    /\ sendErrCh = <<>>
    /\ sendDone = FALSE
    /\ connClosed = FALSE
    /\ callerDone = FALSE
    /\ ttsWaitPc = "idle"
    /\ ttsCtxDone = FALSE
    /\ ttsWaitErr = ""
    /\ ttsWaitBuf = 0
    /\ ttsFrame = NoTtsFrame

\* the go statements of TranscribeAudioWS have run
TasksStarted == Len(asrSent) > 0

\* what conn.ReadMessage, DecodeMessage and json.Unmarshal make of the next server frame;
\* the fields the code never looks at in a case are left at their zero value
AsrServerFrame(readOk, decodeOk, type, flags, jsonOk, code, sequence) ==
    [readOk |-> readOk, decodeOk |-> decodeOk, MessageType |-> type, MessageFlags |-> flags,
     jsonOk |-> jsonOk, Code |-> code, Sequence |-> sequence]

AsrServerFrames ==
    {AsrServerFrame(FALSE, FALSE, 0, 0, FALSE, 0, 0),
     AsrServerFrame(TRUE, FALSE, 0, 0, FALSE, 0, 0),
     AsrServerFrame(TRUE, TRUE, ErrorMessage, 0, FALSE, 0, 0),
     AsrServerFrame(TRUE, TRUE, AudioOnlyServerResponse, 0, FALSE, 0, 0)}
    \cup {AsrServerFrame(TRUE, TRUE, FullServerResponse, flags, FALSE, 0, 0) :
              flags \in {PositiveSequenceNumber, NegativeSequenceNumber}}
    \cup {AsrServerFrame(TRUE, TRUE, FullServerResponse, flags, TRUE, code, sequence) :
              flags \in {NoSequenceNumber, PositiveSequenceNumber, NegativeSequenceNumber},
              code \in {0, 20000000, 45000001}, sequence \in {1, -1}}

\* one iteration of the receive loop on a frame: "" = continue, "resp" = return the response
receiveOutcome(f) ==
    IF ~f.readOk THEN "failed to read ASR response"
    ELSE IF ~f.decodeOk THEN "failed to decode ASR message"
    ELSE IF f.MessageType = ErrorMessage THEN "ASR error"
    ELSE IF f.MessageType = FullServerResponse
    THEN IF ~f.jsonOk THEN ""
         ELSE IF f.Code # 0 /\ f.Code # 20000000 THEN "ASR API error"
         ELSE IF IsLastPacket([Header |-> [MessageFlags |-> f.MessageFlags]]) \/ f.Sequence < 0
         THEN "resp"
         ELSE ""
    ELSE ""

\* the goroutine of receiveASRResults starts
RecvStart ==
    /\ recvPc = "idle"
    /\ TasksStarted
    /\ recvPc' = "select"
    /\ UNCHANGED <<recvOut, recvCause, respCh, recvErrCh, sendErrCh, sendDone, connClosed, callerDone>>
    /\ UNCHANGED <<ttsWaitPc, ttsCtxDone, ttsWaitErr, ttsWaitBuf, ttsFrame>>
    /\ UNCHANGED <<asrVars, exceptCall>>

\* the select of the receive loop: ctx.Done() if it is ready, else the default branch
RecvSelect ==
    /\ recvPc = "select"
    /\ IF asrCtxDone
       THEN /\ recvOut' = "context canceled"
            /\ recvPc' = "report"
       ELSE /\ recvPc' = "read"
            /\ UNCHANGED recvOut
    /\ UNCHANGED <<recvCause, respCh, recvErrCh, sendErrCh, sendDone, connClosed, callerDone>>
    /\ UNCHANGED <<ttsWaitPc, ttsCtxDone, ttsWaitErr, ttsWaitBuf, ttsFrame>>
    /\ UNCHANGED <<asrVars, exceptCall>>

\* conn.ReadMessage returns with the next server frame (or a transport error)
RecvFrame(f) ==
    /\ recvPc = "read"
    /\ ~connClosed
    /\ LET out == receiveOutcome(f)
       IN IF out = ""
          THEN /\ recvPc' = "select"
               /\ UNCHANGED <<recvOut, recvCause>>
          ELSE /\ recvOut' = out
               /\ recvCause' = IF out = "resp" THEN "terminal"
                               ELSE IF out = "ASR error" THEN "error" ELSE "failure"
               /\ recvPc' = "report"
    /\ UNCHANGED <<respCh, recvErrCh, sendErrCh, sendDone, connClosed, callerDone>>
    /\ UNCHANGED <<ttsWaitPc, ttsCtxDone, ttsWaitErr, ttsWaitBuf, ttsFrame>>
    /\ UNCHANGED <<asrVars, exceptCall>>

\* conn.ReadMessage fails because the connection was closed by conn.Close()
RecvReadClosed ==
    /\ recvPc = "read"
    /\ connClosed
    /\ recvOut' = "failed to read ASR response"
    /\ recvPc' = "report"
    /\ UNCHANGED <<recvCause, respCh, recvErrCh, sendErrCh, sendDone, connClosed, callerDone>>
    /\ UNCHANGED <<ttsWaitPc, ttsCtxDone, ttsWaitErr, ttsWaitBuf, ttsFrame>>
    /\ UNCHANGED <<asrVars, exceptCall>>

\* the goroutine hands the result of receiveASRResults to respCh or recvErrCh and ends
RecvReport ==
    /\ recvPc = "report"
    /\ IF recvOut = "resp"
       THEN /\ Len(respCh) < 1
            /\ respCh' = Append(respCh, recvOut)
            /\ UNCHANGED recvErrCh
       ELSE /\ Len(recvErrCh) < 1
            /\ recvErrCh' = Append(recvErrCh, recvOut)
            /\ UNCHANGED respCh
    /\ recvPc' = "exited"
    /\ UNCHANGED <<recvOut, recvCause, sendErrCh, sendDone, connClosed, callerDone>>
    /\ UNCHANGED <<ttsWaitPc, ttsCtxDone, ttsWaitErr, ttsWaitBuf, ttsFrame>>
    /\ UNCHANGED <<asrVars, exceptCall>>

\* the goroutine hands the result of sendAudioData to sendErrCh and ends
SendReport ==
    /\ sendPc = "done"
    /\ Len(sendErrCh) < 1
    /\ sendErrCh' = Append(sendErrCh, sendErr)
    /\ sendPc' = "exited"
    /\ UNCHANGED <<audioData, asrPc, asrErr, asrSent, asrCtxDone, sendI, sendSeq, sendErr>>
    /\ UNCHANGED <<recvPc, recvOut, recvCause, respCh, recvErrCh, sendDone, connClosed, callerDone>>
    /\ UNCHANGED <<ttsWaitPc, ttsCtxDone, ttsWaitErr, ttsWaitBuf, ttsFrame>>
    /\ UNCHANGED exceptCall

\* a write of the send task: it fails once the connection is closed
SendChunkOnConn == \E writeOk \in BOOLEAN : (connClosed => ~writeOk) /\ SendChunk(writeOk)


\* the return statements of the select loop: the deferred cancel() and conn.Close() run
MainReturns(err) ==
    /\ asrPc' = "returned"
    /\ asrErr' = err
    /\ asrCtxDone' = TRUE
    /\ connClosed' = TRUE

\* select loop of TranscribeAudioWS, case err := <-sendErrCh
MainSendErr ==
    /\ asrPc = "running"
    /\ Len(sendErrCh) > 0
    /\ sendErrCh' = Tail(sendErrCh)
    /\ sendDone' = TRUE
    /\ IF Head(sendErrCh) # ""
       THEN MainReturns("failed to send audio data")
       ELSE UNCHANGED <<asrPc, asrErr, asrCtxDone, connClosed>>
    /\ UNCHANGED <<audioData, asrSent, sendPc, sendI, sendSeq, sendErr>>
    /\ UNCHANGED <<recvPc, recvOut, recvCause, respCh, recvErrCh, callerDone>>
    /\ UNCHANGED <<ttsWaitPc, ttsCtxDone, ttsWaitErr, ttsWaitBuf, ttsFrame>>
    /\ UNCHANGED exceptCall

\* case resp := <-respCh
MainResp ==
    /\ asrPc = "running"
    /\ Len(respCh) > 0
    /\ respCh' = Tail(respCh)
    /\ MainReturns("")
    /\ UNCHANGED <<audioData, asrSent, sendPc, sendI, sendSeq, sendErr>>
    /\ UNCHANGED <<recvPc, recvOut, recvCause, recvErrCh, sendErrCh, sendDone, callerDone>>
    /\ UNCHANGED <<ttsWaitPc, ttsCtxDone, ttsWaitErr, ttsWaitBuf, ttsFrame>>
    /\ UNCHANGED exceptCall

\* case err := <-recvErrCh returning without the error
MainRecvErr_Dropped ==
    /\ asrPc = "running"
    /\ Len(recvErrCh) > 0
    /\ recvErrCh' = Tail(recvErrCh)
    /\ MainReturns("")
    /\ UNCHANGED <<audioData, asrSent, sendPc, sendI, sendSeq, sendErr>>
    /\ UNCHANGED <<recvPc, recvOut, recvCause, respCh, sendErrCh, sendDone, callerDone>>
    /\ UNCHANGED <<ttsWaitPc, ttsCtxDone, ttsWaitErr, ttsWaitBuf, ttsFrame>>
    /\ UNCHANGED exceptCall

\* case err := <-recvErrCh
MainRecvErr ==
    /\ asrPc = "running"
    /\ Len(recvErrCh) > 0
    /\ recvErrCh' = Tail(recvErrCh)
    /\ MainReturns(Head(recvErrCh))
    /\ UNCHANGED <<audioData, asrSent, sendPc, sendI, sendSeq, sendErr>>
    /\ UNCHANGED <<recvPc, recvOut, recvCause, respCh, sendErrCh, sendDone, callerDone>>
    /\ UNCHANGED <<ttsWaitPc, ttsCtxDone, ttsWaitErr, ttsWaitBuf, ttsFrame>>
    /\ UNCHANGED exceptCall

\* case <-ctx.Done(): returns only while the send task has not reported; else loops again
MainCtxDone ==
    /\ asrPc = "running"
    /\ asrCtxDone
    /\ IF ~sendDone
       THEN MainReturns("context canceled")
       ELSE UNCHANGED <<asrPc, asrErr, asrCtxDone, connClosed>>
    /\ UNCHANGED <<audioData, asrSent, sendPc, sendI, sendSeq, sendErr>>
    /\ UNCHANGED <<recvPc, recvOut, recvCause, respCh, recvErrCh, sendErrCh, sendDone, callerDone>>
    /\ UNCHANGED <<ttsWaitPc, ttsCtxDone, ttsWaitErr, ttsWaitBuf, ttsFrame>>
    /\ UNCHANGED exceptCall

\* the caller's context expires or is cancelled: the derived context is done too
CallerExpires ==
    /\ asrPc = "running"
    /\ ~callerDone
    /\ callerDone' = TRUE
    /\ asrCtxDone' = TRUE
    /\ UNCHANGED <<audioData, asrPc, asrErr, asrSent, sendPc, sendI, sendSeq, sendErr>>
    /\ UNCHANGED <<recvPc, recvOut, recvCause, respCh, recvErrCh, sendErrCh, sendDone, connClosed>>
    /\ UNCHANGED <<ttsWaitPc, ttsCtxDone, ttsWaitErr, ttsWaitBuf, ttsFrame>>
    /\ UNCHANGED exceptCall

\* ---- synthesizeSpeechWithResource ----

\* what conn.ReadMessage, DecodeMessage, DecompressPayload and json.Unmarshal make of a frame;
\* the fields the code never looks at in a case are left at their zero value.  Payload is
\* the decompressed payload of an audio-only frame, Data the data field of the JSON payload
TtsServerFrame(readOk, decodeOk, type, flags, event, jsonOk, code, sequence, data) ==
    [readOk |-> readOk, decodeOk |-> decodeOk, MessageType |-> type, MessageFlags |-> flags,
     EventType |-> event, jsonOk |-> jsonOk, Code |-> code, Sequence |-> sequence, Data |-> data,
     Payload |-> ""]

TtsAudioFrame(flags, payload) ==
    [TtsServerFrame(TRUE, TRUE, AudioOnlyServerResponse, flags, 0, FALSE, 0, 0, "")
        EXCEPT !.Payload = payload]

\* the flags and the event DecodeMessage delivers with them: the event is read only when
\* the event bit is set
TtsFlagsAndEvents ==
    {<<NoSequenceNumber, EventTypeNone>>, <<NegativeSequenceNumber, EventTypeNone>>,
     <<WithEvent, EventTypeNone>>, <<WithEvent, EventTypeSessionFinished>>,
     <<WithEvent + PositiveSequenceNumber, EventTypeNone>>,
     <<WithEvent + PositiveSequenceNumber, EventTypeSessionFinished>>}

TtsServerFrames ==
    {TtsServerFrame(FALSE, FALSE, 0, 0, 0, FALSE, 0, 0, ""),
     TtsServerFrame(TRUE, FALSE, 0, 0, 0, FALSE, 0, 0, ""),
     TtsServerFrame(TRUE, TRUE, ErrorMessage, 0, 0, FALSE, 0, 0, ""),
     TtsServerFrame(TRUE, TRUE, FullClientRequest, 0, 0, FALSE, 0, 0, ""),
     TtsServerFrame(TRUE, TRUE, FullClientRequest, NegativeSequenceNumber, 0, FALSE, 0, 0, "")}
    \cup {TtsAudioFrame(flags, payload) :
              flags \in {NoSequenceNumber, NegativeSequenceNumber}, payload \in {"", "A"}}
    \cup {TtsServerFrame(TRUE, TRUE, FullServerResponse, fe[1], fe[2], FALSE, 0, 0, "") :
              fe \in TtsFlagsAndEvents}
    \cup {TtsServerFrame(TRUE, TRUE, FullServerResponse, fe[1], fe[2], TRUE, code, sequence, data) :
              fe \in {<<NoSequenceNumber, EventTypeNone>>, <<WithEvent, EventTypeNone>>,
                      <<WithEvent, EventTypeSessionFinished>>},
              code \in {0, 3000, 45000000}, sequence \in {1, -1}, data \in {"", "QQ==", "Q"}}

Base64Alphabet == "ABCDEFGHIJKLMNOPQRSTUVWXYZabcdefghijklmnopqrstuvwxyz0123456789+/"

\* decodeBase64Audio (base64.StdEncoding.DecodeString): whether the text decodes and the
\* number of bytes it gives
decodeBase64Audio(base64Data) ==
    LET n == Len(base64Data)
        padding == IF n >= 2 /\ SubSeq(base64Data, n - 1, n) = "==" THEN 2
                   ELSE IF n >= 1 /\ SubSeq(base64Data, n, n) = "=" THEN 1
                   ELSE 0
        wellFormed ==
            /\ n % 4 = 0
            /\ \A i \in 1 .. (n - padding) : Contains(Base64Alphabet, SubSeq(base64Data, i, i))
    IN [ok |-> wellFormed, len |-> IF wellFormed THEN (n \div 4) * 3 - padding ELSE 0]

\* the receive loop without its test for an empty audioBuffer
ttsReceive_NoEmptyCheck(f, buffered) ==
    IF ~f.readOk THEN [done |-> TRUE, err |-> "failed to read TTS response", add |-> 0]
    ELSE IF ~f.decodeOk THEN [done |-> TRUE, err |-> "failed to decode TTS message", add |-> 0]
    ELSE IF f.MessageType = ErrorMessage THEN [done |-> TRUE, err |-> "TTS error", add |-> 0]
    ELSE IF f.MessageType = AudioOnlyServerResponse
    THEN [done |-> FALSE, err |-> "", add |-> Len(f.Payload)]
    ELSE IF f.MessageType = FullServerResponse
    THEN LET parsed == f.jsonOk
             sequence == IF parsed THEN f.Sequence ELSE 0
             chunk == IF parsed /\ f.Data # "" THEN decodeBase64Audio(f.Data)
                      ELSE [ok |-> TRUE, len |-> 0]
             finalizedByEvent == f.MessageFlags = WithEvent
                                 /\ f.EventType = EventTypeSessionFinished
             finalizedBySequence ==
                 IsLastPacket([Header |-> [MessageFlags |-> f.MessageFlags]]) \/ sequence < 0
         IN IF parsed /\ f.Code # 0 /\ f.Code # 3000
            THEN [done |-> TRUE, err |-> "TTS API error", add |-> 0]
            ELSE IF ~chunk.ok
            THEN [done |-> TRUE, err |-> "failed to decode base64 audio chunk", add |-> 0]
            ELSE [done |-> finalizedByEvent \/ finalizedBySequence, err |-> "", add |-> chunk.len]
    ELSE [done |-> FALSE, err |-> "", add |-> 0]

\* one iteration of the receive loop: the error or "" and the bytes it adds to audioBuffer;
\* done says whether the function returns
ttsReceive(f, buffered) ==
    IF ~f.readOk THEN [done |-> TRUE, err |-> "failed to read TTS response", add |-> 0]
    ELSE IF ~f.decodeOk THEN [done |-> TRUE, err |-> "failed to decode TTS message", add |-> 0]
    ELSE IF f.MessageType = ErrorMessage THEN [done |-> TRUE, err |-> "TTS error", add |-> 0]
    ELSE IF f.MessageType = AudioOnlyServerResponse
    THEN [done |-> FALSE, err |-> "", add |-> Len(f.Payload)]
    ELSE IF f.MessageType = FullServerResponse
    THEN LET parsed == f.jsonOk
             sequence == IF parsed THEN f.Sequence ELSE 0
             chunk == IF parsed /\ f.Data # "" THEN decodeBase64Audio(f.Data)
                      ELSE [ok |-> TRUE, len |-> 0]
             add == chunk.len
             finalizedByEvent == f.MessageFlags = WithEvent
                                 /\ f.EventType = EventTypeSessionFinished
             finalizedBySequence ==
                 IsLastPacket([Header |-> [MessageFlags |-> f.MessageFlags]]) \/ sequence < 0
         IN IF parsed /\ f.Code # 0 /\ f.Code # 3000
            THEN [done |-> TRUE, err |-> "TTS API error", add |-> 0]
            ELSE IF ~chunk.ok
            THEN [done |-> TRUE, err |-> "failed to decode base64 audio chunk", add |-> 0]
            ELSE IF finalizedByEvent \/ finalizedBySequence
            THEN IF buffered + add = 0
                 THEN [done |-> TRUE, err |-> "TTS audio is empty", add |-> 0]
                 ELSE [done |-> TRUE, err |-> "", add |-> add]
            ELSE [done |-> FALSE, err |-> "", add |-> add]
    ELSE [done |-> FALSE, err |-> "", add |-> 0]

\* dial and send the request
TtsWaitStart(dialOk, writeOk) ==
    /\ ttsWaitPc = "idle"
    /\ IF ~dialOk
       THEN ttsWaitPc' = "returned" /\ ttsWaitErr' = "failed to connect to TTS WebSocket"
       ELSE IF ~writeOk
       THEN ttsWaitPc' = "returned" /\ ttsWaitErr' = "failed to send TTS request"
       ELSE ttsWaitPc' = "select" /\ UNCHANGED ttsWaitErr
    /\ UNCHANGED <<ttsCtxDone, ttsWaitBuf, ttsFrame>>
    /\ UNCHANGED <<recvPc, recvOut, recvCause, respCh, recvErrCh, sendErrCh, sendDone, connClosed,
                   callerDone>>
    /\ UNCHANGED <<asrVars, exceptCall>>

\* the select of the receive loop: ctx.Done() if it is ready, else the default branch
TtsWaitSelect ==
    /\ ttsWaitPc = "select"
    /\ IF ttsCtxDone
       THEN ttsWaitPc' = "returned" /\ ttsWaitErr' = "context canceled"
       ELSE ttsWaitPc' = "read" /\ UNCHANGED ttsWaitErr
    /\ UNCHANGED <<ttsCtxDone, ttsWaitBuf, ttsFrame>>
    /\ UNCHANGED <<recvPc, recvOut, recvCause, respCh, recvErrCh, sendErrCh, sendDone, connClosed,
                   callerDone>>
    /\ UNCHANGED <<asrVars, exceptCall>>

\* conn.ReadMessage returns with the next server frame (or a transport error)
TtsWaitFrame(f) ==
    /\ ttsWaitPc = "read"
    /\ LET r == ttsReceive(f, ttsWaitBuf)
       IN /\ ttsWaitBuf + r.add <= MaxTtsChunks
          /\ ttsWaitBuf' = ttsWaitBuf + r.add
          /\ ttsFrame' = f
          /\ ttsWaitErr' = r.err
          /\ ttsWaitPc' = IF r.done THEN "returned" ELSE "select"
    /\ UNCHANGED ttsCtxDone
    /\ UNCHANGED <<recvPc, recvOut, recvCause, respCh, recvErrCh, sendErrCh, sendDone, connClosed,
                   callerDone>>
    /\ UNCHANGED <<asrVars, exceptCall>>

\* the context of the attempt is cancelled or expires
TtsWaitCancel ==
    /\ ttsWaitPc \in {"select", "read"}
    /\ ~ttsCtxDone
    /\ ttsCtxDone' = TRUE
    /\ UNCHANGED <<ttsWaitPc, ttsWaitErr, ttsWaitBuf, ttsFrame>>
    /\ UNCHANGED <<recvPc, recvOut, recvCause, respCh, recvErrCh, sendErrCh, sendDone, connClosed,
                   callerDone>>
    /\ UNCHANGED <<asrVars, exceptCall>>

\* one call is followed at a time: a recognition call or a synthesis attempt
AsrCallStart ==
    \E dialOk \in BOOLEAN, writeOk \in BOOLEAN :
        ttsWaitPc = "idle" /\ TranscribeStart(dialOk, writeOk)

TtsCallStart ==
    \E dialOk \in BOOLEAN, writeOk \in BOOLEAN :
        asrPc = "idle" /\ TtsWaitStart(dialOk, writeOk)

\* the steps of the send task, of the receive task and of the select loop
SendStep == SendReadAll \/ SendChunkOnConn \/ SendPaceElapsed \/ SendPaceCancelled \/ SendReport

RecvStep == RecvStart \/ RecvSelect \/ RecvReadClosed \/ RecvReport

MainStep == MainSendErr \/ MainResp \/ MainRecvErr \/ MainCtxDone

CallNext ==
    \/ AsrCallStart
    \/ SendReadAll
    \/ SendChunkOnConn
    \/ SendPaceElapsed
    \/ SendPaceCancelled
    \/ SendReport
    \/ RecvStart
    \/ RecvSelect
    \/ \E f \in AsrServerFrames : RecvFrame(f)
    \/ RecvReadClosed
    \/ RecvReport
    \/ MainSendErr
    \/ MainResp
    \/ MainRecvErr
    \/ MainCtxDone
    \/ CallerExpires
    \/ TtsCallStart
    \/ TtsWaitSelect
    \/ \E f \in TtsServerFrames : TtsWaitFrame(f)
    \/ TtsWaitCancel

(***************************************************************************)
(* Keepalive of pooled connections: pingLoop against a peer that stops     *)
(* responding (connection.go)                                              *)
(***************************************************************************)
PeerParked == peer = [c \in 1 .. MaxConns |-> "up"]

\* the connection is in ConnectionManager.connections
Pooled(c) == \E sid \in DOMAIN connections : connections[sid] = c

\* the peer of a connection stops responding: silently, or with a broken transport
PeerStops(c, how) ==
    /\ c \in DOMAIN connSession
    /\ peer[c] = "up"
    /\ peer' = [peer EXCEPT ![c] = how]
    /\ UNCHANGED exceptPeer

\* conn.WriteMessage(PingMessage) fails on a closed connection or a broken transport; to a
\* peer that only stopped answering it succeeds, and no step of pingLoop waits for a pong
PingWriteOk(c) == c \notin closedConns /\ peer[c] # "dead"

\* pingLoop: the ticker fires and the probe is written to the connection's peer
PingTick(p) == \E writeOk \in BOOLEAN : writeOk = PingWriteOk(p.conn) /\ PingProbe(p, writeOk)

\* every pingLoop task there can be
PingTasks == [conn : 1 .. MaxConns, sid : Sessions, ctx : 1 .. MaxCalls]

\* one iteration of pingLoop's select
PingStep(p) == PingTick(p) \/ PingStop(p)

PoolLiveNext ==
    \/ \E sid \in Sessions : ConnectWithRetry(sid)
    \/ \E dialOk \in BOOLEAN : ConnectAttempt(dialOk)
    \/ CheckCtx
    \/ Tick
    \/ \E branch \in {"cancel", "timer"} : WaitSelect(branch)
    \/ \E ctx \in 1 .. MaxCalls : Cancel(ctx)
    \/ \E p \in pingers : PingTick(p)
    \/ \E p \in pingers : PingStop(p)
    \/ \E c \in 1 .. MaxConns, how \in {"mute", "dead"} : PeerStops(c, how)

(***************************************************************************)
(* Emotion engine: the heuristic Analyze (analysis/emotion/analyzer.go)    *)
(* and the model-backed Service.Analyze (service/emotion/service.go).      *)
(* A float32 intensity is held in quarters: Scale = 4 * the Go value.      *)
(***************************************************************************)
Neutral == "neutral"
Happy == "happy"
Sad == "sad"
Angry == "angry"
Excited == "excited"
Tender == "tender"
Comfort == "comfort"
Magnetic == "magnetic"

EmotionLabels == {Neutral, Happy, Sad, Angry, Excited, Tender, Comfort, Magnetic}

ScaleUnit == 4

\* the keys of keywordBuckets
BucketLabels == {Happy, Sad, Angry, Excited, Tender, Comfort, Magnetic}

\* keywordBuckets, in the table's order: the keywords an ASCII text can contain (the others
\* hold non-ASCII characters and match no ASCII text)
keywordBuckets(label) ==
    CASE label = Happy -> <<"lol", "amazing", "awesome", "great", "thanks", "thank you", "love">>
      [] label = Sad -> <<"unhappy", "sad", "cry", "depressed", "tragedy", "upset", "hurt",
                          "sorrow">>
      [] label = Angry -> <<"angry", "furious", "rage", "mad", "annoyed", "pissed", "outrage",
                            "storm off">>
      [] label = Excited -> <<"can't wait", "can't wait", "superb", "unbelievable", "hype", "wow">>
      [] label = Tender -> <<"soft", "gentle", "calm", "softly">>
      [] label = Comfort -> <<"we are here", "for you", "calm down", "breathe", "take it easy",
                              "i'm here", "you're safe">>
      [] label = Magnetic -> <<"focus", "critical", "serious">>

\* punctuationBoost[label]; a missing key reads as 0
punctuationBoost(label) ==
    IF label = Happy THEN 2 ELSE IF label = Excited THEN 3 ELSE 0

RECURSIVE Count(_, _)
\* strings.Count(str, c) for a one-character c
Count(str, c) ==
    IF Len(str) = 0 THEN 0
    ELSE (IF CharAt(str, 1) = c THEN 1 ELSE 0) + Count(Tail(str), c)

\* the scores map of scoreText after both loops (an absent key reads as 0)
textScores(text) ==
    LET normalized == TrimSpace(ToLower(text))
        exclamations == Count(text, "!")
        hits(label) == Cardinality({i \in 1 .. Len(keywordBuckets(label)) :
                                       Contains(normalized, ToLower(keywordBuckets(label)[i]))})
    IN [label \in BucketLabels |->
           3 * hits(label)
           + (IF label = Excited THEN exclamations * punctuationBoost(Excited) ELSE 0)
           + (IF label = Happy /\ exclamations = 1 THEN punctuationBoost(Happy) ELSE 0)]

Decision(emotion, scale, score) == [Emotion |-> emotion, Scale |-> scale, Score |-> score]

\* scoreText: the decisions it can return.  The best label is found by ranging over the
\* scores map, whose iteration order is unspecified: among labels that share the top score
\* the first one met wins, and that can be any of them
scoreText(text) ==
    LET normalized == TrimSpace(ToLower(text))
        scores == textScores(text)
        bestScore == CHOOSE s \in {scores[l] : l \in BucketLabels} :
                         \A l \in BucketLabels : scores[l] <= s
    IN IF normalized = "" THEN {Decision(Neutral, 0, 0)}
       ELSE IF bestScore = 0 THEN {Decision(Neutral, 0, 0)}
       ELSE {Decision(l, 0, bestScore) : l \in {b \in BucketLabels : scores[b] = bestScore}}

\* coerceEmotionFromUser that hands the user's emotion through
coerceEmotionFromUser_Identity(user) == user

coerceEmotionFromUser(user) ==
    CASE user.Emotion = Sad -> Decision(Comfort, 0, user.Score)
      [] user.Emotion = Angry -> Decision(Magnetic, 0, user.Score)
      [] user.Emotion = Excited -> Decision(Excited, 0, user.Score)
      [] user.Emotion = Happy -> Decision(Happy, 0, user.Score)
      [] user.Emotion \in {Tender, Comfort} -> Decision(Tender, 0, user.Score)
      [] OTHER -> user

Min(a, b) == IF a < b THEN a ELSE b

\* the final clamp of Analyze: scale < 1 becomes 1, scale > 5 becomes 5
ClampAnalyze(scale) ==
    IF scale < 1 * ScaleUnit THEN 1 * ScaleUnit
    ELSE IF scale > 5 * ScaleUnit THEN 5 * ScaleUnit
    ELSE scale

\* Analyze without its default for a zero score: the scored decision is returned as it is
AnalyzeScored_NoDefault(userScore, aiScore) ==
    LET finalScore == IF aiScore.Score = 0 /\ userScore.Score > 0
                      THEN coerceEmotionFromUser(userScore)
                      ELSE aiScore
    IN Decision(finalScore.Emotion, ClampAnalyze(2 * ScaleUnit + finalScore.Score),
                finalScore.Score)

\* Analyze from the two scoreText results
AnalyzeScored(userScore, aiScore) ==
    LET finalScore == IF aiScore.Score = 0 /\ userScore.Score > 0
                      THEN coerceEmotionFromUser(userScore)
                      ELSE aiScore
        base == 2 * ScaleUnit + (finalScore.Score * ScaleUnit) \div 4
        boosted == IF finalScore.Emotion = Excited THEN base + 1 * ScaleUnit ELSE base
        capped == IF finalScore.Emotion = Magnetic THEN Min(4 * ScaleUnit, boosted)
                  ELSE boosted
        soft == IF finalScore.Emotion \in {Comfort, Tender}
                THEN Min((7 * ScaleUnit) \div 2, capped)
                ELSE capped
    IN IF finalScore.Score = 0
       THEN Decision(Neutral, 3 * ScaleUnit, 0)
       ELSE Decision(finalScore.Emotion, ClampAnalyze(soft), finalScore.Score)

\* Analyze(userUtterance, aiUtterance): the decisions it can return
Analyze(userUtterance, aiUtterance) ==
    {AnalyzeScored(userScore, aiScore) :
        userScore \in scoreText(userUtterance), aiScore \in scoreText(aiUtterance)}

\* ---- Service.Analyze ----

\* defaultStyleByEmotion[label], named by its key
defaultStyleByEmotion(label) == IF label \in EmotionLabels THEN "style for " \o label ELSE ""

Guidance(decision, style, confidence, reason) ==
    [Decision |-> decision, Style |-> style, Confidence |-> confidence, Reason |-> reason]

\* fallbackGuidance: the heuristic decision; Confidence is held in hundredths
fallbackGuidance(userMessage, assistantMessage) ==
    {Guidance(decision,
              IF defaultStyleByEmotion(decision.Emotion) = "" THEN "natural and friendly"
              ELSE defaultStyleByEmotion(decision.Emotion),
              IF decision.Score > 0 THEN 55 ELSE 30,
              "fallback") :
        decision \in Analyze(userMessage, assistantMessage)}

\* strings.Index(str, c) and strings.LastIndex(str, c) for a one-character c (0-based, -1 if absent)
Index(str, c) ==
    IF \E i \in 1 .. Len(str) : CharAt(str, i) = c
    THEN (CHOOSE i \in 1 .. Len(str) :
              CharAt(str, i) = c /\ \A j \in 1 .. (i - 1) : CharAt(str, j) # c) - 1
    ELSE -1

LastIndex(str, c) ==
    IF \E i \in 1 .. Len(str) : CharAt(str, i) = c
    THEN (CHOOSE i \in 1 .. Len(str) :
              CharAt(str, i) = c /\ \A j \in (i + 1) .. Len(str) : CharAt(str, j) # c) - 1
    ELSE -1

\* parseClassifierOutput: the object between the first "{" and the last "}" is unmarshalled;
\* reply.json is what json.Unmarshal makes of it
parseClassifierOutput(reply) ==
    LET trimmed == TrimSpace(reply.Content)
        start == Index(trimmed, "{")
        end == LastIndex(trimmed, "}")
    IN IF start = -1 \/ end = -1 \/ end <= start
       THEN [ok |-> FALSE, err |-> "missing json object"]
       ELSE IF ~reply.json.ok
       THEN [ok |-> FALSE, err |-> "invalid json"]
       ELSE [ok |-> TRUE, err |-> "", payload |-> reply.json.payload]

parseEmotionLabel(raw) ==
    LET normalized == ToLower(TrimSpace(raw))
    IN IF normalized \in {"neutral", "happy", "sad", "angry", "excited", "tender", "comfort",
                          "magnetic"}
       THEN [label |-> normalized, ok |-> TRUE]
       ELSE [label |-> "", ok |-> FALSE]

\* clampScale without its upper limit
clampScale_NoUpper(val) ==
    IF val <= 0 THEN 3 * ScaleUnit
    ELSE IF val < 1 * ScaleUnit THEN 1 * ScaleUnit
    ELSE val

clampScale(val) ==
    IF val <= 0 THEN 3 * ScaleUnit
    ELSE IF val < 1 * ScaleUnit THEN 1 * ScaleUnit
    ELSE IF val > 5 * ScaleUnit THEN 5 * ScaleUnit
    ELSE val

\* Service.Analyze: the guidances it can return.  enabled is s.Enabled(); reply is what the
\* classifier returned: err, msg = nil, or the content of the message
ServiceAnalyze(enabled, reply, userMessage, assistantMessage) ==
    IF ~enabled THEN fallbackGuidance(userMessage, assistantMessage)
    ELSE IF reply.err THEN fallbackGuidance(userMessage, assistantMessage)
    ELSE IF reply.nilMsg \/ TrimSpace(reply.Content) = ""
    THEN fallbackGuidance(userMessage, assistantMessage)
    ELSE LET result == parseClassifierOutput(reply)
         IN IF ~result.ok THEN fallbackGuidance(userMessage, assistantMessage)
            ELSE LET parsed == parseEmotionLabel(result.payload.Emotion)
                     scale == clampScale(result.payload.Scale)
                     \* int(scale * 2)
                     decision == Decision(parsed.label, scale, (scale * 2) \div ScaleUnit)
                     style == IF TrimSpace(result.payload.Style) = ""
                              THEN defaultStyleByEmotion(decision.Emotion)
                              ELSE TrimSpace(result.payload.Style)
                     confidence == IF result.payload.Confidence <= 0 THEN 60
                                   ELSE IF result.payload.Confidence > 100 THEN 100
                                   ELSE result.payload.Confidence
                 IN IF ~parsed.ok THEN fallbackGuidance(userMessage, assistantMessage)
                    ELSE {Guidance(decision, style, confidence,
                                   TrimSpace(result.payload.Reason))}

\* the texts of a turn
EmotionTexts ==
    {"", "  ", "ok", "I am sad", "so angry", "great, thanks!", "wow!!!!", "calm down",
     "Great wow", "this is serious"}

\* classifierPayload values: labels in and out of the closed set, in any case and padding;
\* scales below, inside and above 1..5 (in quarters); confidences in hundredths
Payload(emotion, scale, confidence, style, reason) ==
    [Emotion |-> emotion, Scale |-> scale, Confidence |-> confidence, Style |-> style,
     Reason |-> reason]

ZeroPayload == Payload("", 0, 0, "", "")

ClassifierPayloads ==
    {Payload(emotion, 3 * ScaleUnit, 80, "", "r") :
        emotion \in {"neutral", "happy", "sad", "angry", "excited", "tender", "comfort",
                     "magnetic", " Happy ", "SAD", "joy", ""}}
    \cup {Payload(emotion, scale, 80, "", "r") :
             emotion \in {"excited", " Happy "}, scale \in {-4, 0, 1, 3, 4, 10, 20, 21, 40}}
    \cup {Payload("happy", 3 * ScaleUnit, confidence, style, " because ") :
             confidence \in {-10, 0, 50, 100, 150}, style \in {"", " warm "}}

NoReply == [err |-> FALSE, nilMsg |-> FALSE, Content |-> "", json |-> [ok |-> FALSE, payload |-> ZeroPayload]]

\* what classifier.Invoke returns
ClassifierReplies ==
    {[NoReply EXCEPT !.err = TRUE], [NoReply EXCEPT !.nilMsg = TRUE]}
    \cup {[NoReply EXCEPT !.Content = c] : c \in {"", "  ", "happy", "} {", "{", "{ not json }"}}
    \cup {[NoReply EXCEPT !.Content = c, !.json = [ok |-> TRUE, payload |-> p]] :
             c \in {"{...}", " Sure: {...} "}, p \in ClassifierPayloads \cup {ZeroPayload}}

NoGuidance == Guidance(Decision("", 0, 0), "", 0, "")

\* ---- TTS emotion parameters (service/speech/voice_profile.go) ----

\* defaultEmotionLabels: the parameter label of an emotion
defaultEmotionLabels ==
    [label \in BucketLabels |->
        CASE label = Happy -> "happy"
          [] label = Sad -> "sad"
          [] label = Angry -> "angry"
          [] label = Excited -> "excited"
          [] label = Tender -> "tender"
          [] label = Comfort -> "comfort"
          [] label = Magnetic -> "magnetic"]

emotionVoiceWhitelist ==
    {"zh_male_junlangnanyou_emo_v2_mars_bigtts", "zh_male_yourougongzi_emo_v2_mars_bigtts",
     "zh_male_aojiaobazong_emo_v2_mars_bigtts", "zh_female_gaolengyujie_emo_v2_mars_bigtts",
     "zh_female_tianxinxiaomei_emo_v2_mars_bigtts", "zh_female_linjuayi_emo_v2_mars_bigtts",
     "en_female_candice_emo_v2_mars_bigtts", "en_female_skye_emo_v2_mars_bigtts",
     "en_male_glen_emo_v2_mars_bigtts", "en_male_sylus_emo_v2_mars_bigtts",
     "en_male_corey_emo_v2_mars_bigtts"}

\* supportsEmotion that takes every voice
supportsEmotion_Any(voiceIn) == TRUE

supportsEmotion(voiceIn) ==
    LET normalized == ToLower(TrimSpace(voiceIn))
    IN IF normalized = "" THEN FALSE
       ELSE IF normalized \in emotionVoiceWhitelist THEN TRUE
       ELSE Contains(normalized, "_emo_") \/ Contains(normalized, "_emo")

EmotionParameters(enable, label, scale) == [enable |-> enable, label |-> label, scale |-> scale]

ComputeEmotionParameters(voiceIn, decision) ==
    IF decision.Emotion = Neutral \/ decision.Score <= 0 THEN EmotionParameters(FALSE, "", 0)
    ELSE IF ~supportsEmotion(voiceIn) THEN EmotionParameters(FALSE, "", 0)
    ELSE LET mapped == IF decision.Emotion \in DOMAIN defaultEmotionLabels
                       THEN defaultEmotionLabels[decision.Emotion]
                       ELSE Neutral
             finalScale == IF decision.Scale <= 0 THEN 3 * ScaleUnit
                           ELSE IF decision.Scale < 1 * ScaleUnit THEN 1 * ScaleUnit
                           ELSE IF decision.Scale > 5 * ScaleUnit THEN 5 * ScaleUnit
                           ELSE decision.Scale
         IN EmotionParameters(TRUE, mapped, finalScale)

\* voices: blank, on the allow-list (also in other case and padded), named *_emo only,
\* and without emotion support
EmotionVoices ==
    {"", "  ", "zh_male_junlangnanyou_emo_v2_mars_bigtts",
     " EN_Female_Skye_EMO_v2_mars_bigtts ", "custom_emo", "my_emo_voice",
     "zh_female_vv_venus_bigtts", "emotional_voice"}

\* the decisions the two analyses produce
VoiceDecisions ==
    LET scores == UNION {scoreText(text) : text \in EmotionTexts}
    IN {AnalyzeScored(userScore, aiScore) : userScore \in scores, aiScore \in scores}
       \cup UNION {{guidance.Decision : guidance \in ServiceAnalyze(TRUE, reply, "", "")} :
                      reply \in ClassifierReplies}

VoiceParked ==
    /\ paramsVoice = ""
    /\ paramsDecision = Decision("", 0, 0)
    /\ paramsPc = "idle"
    /\ paramsOut = EmotionParameters(FALSE, "", 0)

VoiceInit ==
    /\ paramsVoice \in EmotionVoices
    /\ paramsDecision \in VoiceDecisions
    /\ paramsPc = "idle"
    /\ paramsOut = EmotionParameters(FALSE, "", 0)

\* a call of ComputeEmotionParameters
ComputeEmotionParametersCall ==
    /\ paramsPc = "idle"
    /\ paramsOut' = ComputeEmotionParameters(paramsVoice, paramsDecision)
    /\ paramsPc' = "done"
    /\ UNCHANGED <<paramsVoice, paramsDecision>>
    /\ UNCHANGED <<emoUser, emoAi, emoKind, emoEnabled, emoReply, emoOut>>
    /\ UNCHANGED exceptEmo

VoiceNext == ComputeEmotionParametersCall

EmoStart ==
    /\ emoKind = ""
    /\ emoEnabled = FALSE
    /\ emoReply = NoReply
    /\ emoOut = NoGuidance

\* no analysis under way
EmoRest ==
    /\ emoUser = ""
    /\ emoAi = ""
    /\ EmoStart

EmoParked ==
    /\ EmoRest
    /\ VoiceParked

EmoInit ==
    /\ emoUser \in EmotionTexts
    /\ emoAi \in EmotionTexts
    /\ EmoStart
    /\ VoiceParked

\* a call of the heuristic Analyze on the turn's texts
AnalyzeCall ==
    /\ emoKind = ""
    /\ \E decision \in Analyze(emoUser, emoAi) : emoOut' = Guidance(decision, "", 0, "")
    /\ emoKind' = "heuristic"
    /\ emoEnabled' = FALSE
    /\ emoReply' = NoReply
    /\ UNCHANGED <<emoUser, emoAi, paramsVoice, paramsDecision, paramsPc, paramsOut>>
    /\ UNCHANGED exceptEmo

\* a call of Service.Analyze on the turn's texts
ServiceAnalyzeCall(enabled, reply) ==
    /\ emoKind = ""
    /\ \E guidance \in ServiceAnalyze(enabled, reply, emoUser, emoAi) : emoOut' = guidance
    /\ emoKind' = "service"
    /\ emoEnabled' = enabled
    /\ emoReply' = reply
    /\ UNCHANGED <<emoUser, emoAi, paramsVoice, paramsDecision, paramsPc, paramsOut>>
    /\ UNCHANGED exceptEmo

EmoNext ==
    \/ AnalyzeCall
    \/ \E enabled \in BOOLEAN :
           \E reply \in (IF enabled THEN ClassifierReplies ELSE {NoReply}) :
               ServiceAnalyzeCall(enabled, reply)

(***************************************************************************)
(* Speech routes: Handler.RegisterRoutes and the realtime route it sets up *)
(* (handler/speech).  A collaborator is TRUE when it is not nil.           *)
(***************************************************************************)
MaxWsRequests == 2

Collaborators ==
    [speechSvc : BOOLEAN, aiSvc : BOOLEAN, emotionSvc : BOOLEAN, chatSvc : BOOLEAN,
     personaStore : BOOLEAN]

NoHandler == [speechSvc |-> FALSE, aiSvc |-> FALSE, chatSvc |-> FALSE, personaStore |-> FALSE]

\* websocketAvailable that looks at the speech service only
websocketAvailable_SpeechOnly(given) == given.speechSvc

websocketAvailable(given) ==
    ~(~given.speechSvc \/ ~given.aiSvc \/ ~given.chatSvc \/ ~given.personaStore)

NewWebSocketHandler(given) ==
    [speechSvc |-> given.speechSvc, aiSvc |-> given.aiSvc, chatSvc |-> given.chatSvc,
     personaStore |-> given.personaStore]

RouteStart ==
    /\ routePc = "new"
    /\ wsRoute = ""
    /\ wsHandler = NoHandler
    /\ wsRequests = 0
    /\ wsStatus = 0
    /\ wsOpen = FALSE
    /\ wsOpened = 0
    /\ stepResult = ""

RouteParked ==
    /\ collaborators = [speechSvc |-> TRUE, aiSvc |-> TRUE, emotionSvc |-> TRUE,
                        chatSvc |-> TRUE, personaStore |-> TRUE]
    /\ RouteStart

RouteInit ==
    /\ collaborators \in Collaborators
    /\ RouteStart

\* Handler.RegisterRoutes: the handler of GET /speech/ws/{sessionID}
RegisterRoutes ==
    /\ routePc = "new"
    /\ routePc' = "registered"
    /\ IF websocketAvailable(collaborators)
       THEN /\ wsHandler' = NewWebSocketHandler(collaborators)
            /\ wsRoute' = "websocket"
       ELSE /\ wsRoute' = "fallback"
            /\ UNCHANGED wsHandler
    /\ UNCHANGED <<collaborators, wsRequests, wsStatus, wsOpen, wsOpened, stepResult>>
    /\ UNCHANGED exceptRoute

\* handleWebSocket up to the upgrade: the status answered, 101 when the session opens
handleWebSocketStatus(handler, sessionID, sessionFound, personaFound, upgradeOk) ==
    IF sessionID = "" THEN 400
    ELSE IF ~handler.chatSvc THEN 503
    ELSE IF ~sessionFound THEN 404
    ELSE IF ~personaFound THEN 400
    ELSE IF ~upgradeOk THEN 400
    ELSE 101

\* a GET on the realtime route
WsRequest(sessionID, sessionFound, personaFound, upgradeOk) ==
    /\ routePc = "registered"
    /\ ~wsOpen
    /\ wsRequests < MaxWsRequests
    /\ wsRequests' = wsRequests + 1
    /\ IF wsRoute = "fallback"
       THEN /\ wsStatus' = 501
            /\ UNCHANGED <<wsOpen, wsOpened>>
       ELSE /\ wsStatus' = handleWebSocketStatus(wsHandler, sessionID, sessionFound,
                                                 personaFound, upgradeOk)
            /\ wsOpen' = (wsStatus' = 101)
            /\ wsOpened' = IF wsStatus' = 101 THEN wsOpened + 1 ELSE wsOpened
    /\ stepResult' = ""
    /\ UNCHANGED <<collaborators, routePc, wsRoute, wsHandler>>
    /\ UNCHANGED exceptRoute

\* processUserText in an open session: the error it returns, "" for nil
processUserTextResult(handler, loadOk, saveOk, generateOk) ==
    IF ~handler.chatSvc THEN "chat service unavailable"
    ELSE IF ~loadOk THEN "load transcript failed"
    ELSE IF ~saveOk THEN "save user message failed"
    ELSE IF ~handler.aiSvc THEN "ai service unavailable"
    ELSE IF ~generateOk THEN "generate failed"
    ELSE ""

\* one conversation step of the open session
ConversationStep(loadOk, saveOk, generateOk) ==
    /\ wsOpen
    /\ stepResult = ""
    /\ stepResult' = LET err == processUserTextResult(wsHandler, loadOk, saveOk, generateOk)
                     IN IF err = "" THEN "replied" ELSE err
    /\ UNCHANGED <<collaborators, routePc, wsRoute, wsHandler, wsRequests, wsStatus, wsOpen,
                   wsOpened>>
    /\ UNCHANGED exceptRoute

\* the client leaves: handleWebSocket returns
WsClose ==
    /\ wsOpen
    /\ wsOpen' = FALSE
    /\ UNCHANGED <<collaborators, routePc, wsRoute, wsHandler, wsRequests, wsStatus, wsOpened,
                   stepResult>>
    /\ UNCHANGED exceptRoute

WsRequestStep ==
    \E sessionID \in {"s1"}, sessionFound, personaFound, upgradeOk \in BOOLEAN :
        WsRequest(sessionID, sessionFound, personaFound, upgradeOk)

ConversationStepTaken ==
    \E loadOk, saveOk, generateOk \in BOOLEAN : ConversationStep(loadOk, saveOk, generateOk)

RouteNext ==
    \/ RegisterRoutes
    \/ WsRequestStep
    \/ ConversationStepTaken
    \/ WsClose

(***************************************************************************)
(* The transcript kept by receiveASRResults (volcengine_asr.go)            *)
(***************************************************************************)
MaxAsrFrames == 3
MaxHandshakes == 4

\* joinUtterances: the texts joined by a blank, written only once the builder holds something
RECURSIVE joinInto(_, _)
joinInto(builder, utterances) ==
    IF utterances = <<>> THEN builder
    ELSE joinInto((IF Len(builder) > 0 THEN builder \o " " ELSE builder) \o Head(utterances),
                  Tail(utterances))

joinUtterances(utterances) == joinInto("", utterances)

\* the result fields of the JSON payload of a full server response
AsrResults == [Text : {"", "hi", "yo"}, Utterances : {<<>>, <<"a", "b">>, <<"", "">>}]

NoAsrResult == [Text |-> "", Utterances |-> <<>>]

\* the frame's JSON payload was parsed
AsrParsed(f) == f.readOk /\ f.decodeOk /\ f.MessageType = FullServerResponse /\ f.jsonOk

\* finalText that takes every candidate, empty ones too
keepFinalText_Overwrite(finalTextIn, result) ==
    IF result.Text = "" /\ Len(result.Utterances) > 0
    THEN joinUtterances(result.Utterances)
    ELSE result.Text

\* finalText after the frame's result: the candidate if it is not empty
keepFinalText(finalTextIn, result) ==
    LET textCandidate == IF result.Text = "" /\ Len(result.Utterances) > 0
                         THEN joinUtterances(result.Utterances)
                         ELSE result.Text
    IN IF textCandidate # "" THEN textCandidate ELSE finalTextIn

TranscriptStart ==
    /\ finalText = ""
    /\ heard = <<>>
    /\ trErr = ""
    /\ trText = ""

TranscriptParked == trPc = "idle" /\ TranscriptStart

TranscriptInit == trPc = "read" /\ TranscriptStart

\* one iteration of the receive loop on frame f whose payload, if parsed, holds result
TranscriptFrame(f, result) ==
    /\ trPc = "read"
    /\ Len(heard) < MaxAsrFrames
    /\ LET out == receiveOutcome(f)
           textReached == AsrParsed(f) /\ out \in {"", "resp"}
       IN /\ finalText' = IF textReached THEN keepFinalText(finalText, result) ELSE finalText
          /\ heard' = IF AsrParsed(f) THEN Append(heard, result) ELSE heard
          /\ trPc' = IF out = "" THEN "read" ELSE "returned"
          /\ trErr' = IF out = "resp" THEN "" ELSE out
          /\ trText' = IF out = "resp" THEN finalText' ELSE ""
    /\ UNCHANGED exceptTranscript

TranscriptNext ==
    \E f \in AsrServerFrames :
        \E result \in (IF AsrParsed(f) THEN AsrResults ELSE {NoAsrResult}) :
            TranscriptFrame(f, result)

(***************************************************************************)
(* The handshakes with the upstream speech services: the headers set by    *)
(* TranscribeAudioWS (volcengine_asr.go) and by                            *)
(* synthesizeSpeechWithResource (volcengine_tts.go) before they dial       *)
(***************************************************************************)
\* the ids uuid.New() returns, in the order it returns them: random
\* version-4 ids, taken as never repeating and as differing from session ids
UuidValues ==
    <<"1b4e28ba-2fa1-41d2-883f-0016d3cca427", "6fa459ea-ee8a-4ca4-894e-db77e160355e",
      "9c5b94b1-35ad-49bb-b118-8e8fc24abf80", "c2a3f4d1-0e7b-4f6a-9d2c-5b8e1a7f3c90",
      "e4eaaaf2-d142-41b4-b8a2-7ce9e0f1a6d5", "f47ac10b-58cc-4372-a567-0e02b2c3d479">>

uuidNew(issued) == UuidValues[issued + 1]

\* the resource id of the ASR handshake
asrResourceID(concurrentMode) ==
    IF concurrentMode THEN "volc.bigasr.sauc.concurrent" ELSE "volc.bigasr.sauc.duration"

Handshake(service, sessionID, resourceID, connectID) ==
    [service |-> service, sessionID |-> sessionID, resourceID |-> resourceID,
     connectID |-> connectID]

HandshakeStart == handshakes = <<>> /\ uuidsIssued = 0

HandshakeParked == hsPc = "idle" /\ HandshakeStart

HandshakeInit == hsPc = "dial" /\ HandshakeStart

\* TranscribeAudioWS up to DialContext, for a request of session sessionID
DialASR(sessionID, concurrentMode) ==
    /\ hsPc = "dial"
    /\ Len(handshakes) < MaxHandshakes
    /\ handshakes' = Append(handshakes,
                            Handshake("asr", sessionID, asrResourceID(concurrentMode), sessionID))
    /\ UNCHANGED <<uuidsIssued, hsPc>>
    /\ UNCHANGED exceptHandshake

\* synthesizeSpeechWithResource up to DialContext: one candidate attempt
DialTTS(sessionID, resourceID) ==
    /\ hsPc = "dial"
    /\ Len(handshakes) < MaxHandshakes
    /\ uuidsIssued < Len(UuidValues)
    /\ handshakes' = Append(handshakes,
                            Handshake("tts", sessionID, resourceID, uuidNew(uuidsIssued)))
    /\ uuidsIssued' = uuidsIssued + 1
    /\ UNCHANGED hsPc
    /\ UNCHANGED exceptHandshake

DialASRStep == \E sessionID \in Sessions, concurrentMode \in BOOLEAN : DialASR(sessionID, concurrentMode)

DialTTSStep == \E sessionID \in Sessions, resourceID \in {defaultResource, megaResource} : DialTTS(sessionID, resourceID)

HandshakeNext == DialASRStep \/ DialTTSStep

(***************************************************************************)
(* One spoken utterance end to end: the bundled web client (the speech     *)
(* socket of api/client.ts and handleSpeechSocketMessage of the chat       *)
(* orchestrator) connected to the session handler above                    *)
(***************************************************************************)
MaxInterimChunks == 2

\* the event types the client knows
InfoEventTypes == {"connected", "config", "asr", "user", "ai_delta", "ai", "tts", "emotion"}

NoClientMessage == [type |-> "", sessionId |-> "", data |-> [type |-> ""]]

\* normalizeSpeechSocketMessage: what onMessage is called with (NoClientMessage = null)
normalizeSpeechSocketMessage(raw) ==
    LET normalizedType == ToLower(raw.Type)
    IN IF normalizedType = "" THEN NoClientMessage
       ELSE IF normalizedType \in {"ping", "pong"}
       THEN [type |-> normalizedType, sessionId |-> raw.SessionID, data |-> [type |-> ""]]
       ELSE IF normalizedType \in {"result", "info"}
       THEN LET rawEventType == IF "type" \in DOMAIN raw.Data THEN ToLower(raw.Data.type) ELSE ""
                eventType == IF rawEventType \in InfoEventTypes THEN rawEventType ELSE "config"
            IN [type |-> "info", sessionId |-> raw.SessionID,
                data |-> [raw.Data EXCEPT !.type = eventType]]
       ELSE IF normalizedType = "error"
       THEN [type |-> "error", sessionId |-> raw.SessionID, data |-> raw.Data]
       ELSE NoClientMessage

\* the text message the client sends through sendSpeechMessage
ClientText(sessionId, transcript) == Inbound("text", sessionId, TRUE, NoAudio, transcript, NoConfig)

\* handleSpeechSocketMessage that only shows the final transcript
handleSpeechSocketMessage_ShowOnly(message, activeSessionId) == <<>>

\* handleSpeechSocketMessage: the messages it sends to the server.
\* activeSessionId is the id of the conversation's session ("" = no session)
handleSpeechSocketMessage(message, activeSessionId) ==
    IF message = NoClientMessage \/ message.type \in {"error", "pong"} THEN <<>>
    ELSE IF message.sessionId # "" /\ activeSessionId # "" /\ message.sessionId # activeSessionId
    THEN <<>>
    ELSE IF message.type = "ping"
    THEN <<Inbound("pong", activeSessionId, TRUE, NoAudio, "", NoConfig)>>
    ELSE IF message.type # "info" THEN <<>>
    ELSE IF message.data.type = "asr"
    THEN LET transcript == IF "text" \in DOMAIN message.data THEN message.data.text ELSE ""
             isFinal == "isFinal" \in DOMAIN message.data /\ message.data.isFinal
         IN IF isFinal /\ activeSessionId # ""
            THEN <<ClientText(activeSessionId, transcript)>>
            ELSE <<>>
    ELSE <<>>

\* the audio message sendAudioChunk builds
ClientAudio(sessionId, chunk, isFinal) ==
    Inbound("audio", sessionId, TRUE,
            [AudioData |-> chunk, Format |-> "wav", Language |-> "zh-CN", IsFinal |-> isFinal],
            "", NoConfig)

\* the collaborators answer without error; the recognizer hears something or nothing
UtteranceEnvs ==
    {e \in Envs :
        /\ e.asr.err = "" /\ e.loadErr = "" /\ e.saveUserErr = "" /\ e.saveAssistantErr = ""
        /\ e.ai.available /\ e.ai.err = "" /\ e.ai.recvErr = ""}

CountIn(cs, fns) == Cardinality({i \in DOMAIN cs : cs[i].fn \in fns})

UserTurnsIn(cs) ==
    Cardinality({i \in DOMAIN cs : cs[i].fn = "SaveMessage" /\ cs[i].sender = "user"})

UtteranceStart ==
    /\ toServer = <<>>
    /\ toClient = <<>>
    /\ uttSent = 0
    /\ uttFinal = FALSE
    /\ uttTranscript = ""
    /\ userTurns = 0
    /\ modelCalls = 0
    /\ resent = 0

UtteranceParked == uttState = NoState /\ UtteranceStart

\* the socket is open, the "connected" message has been read, the user starts to speak
UtteranceInit == uttState = newConnectionState(SessionID, "p1") /\ UtteranceStart

\* sendAudioChunk: the recorder hands over a chunk; the last one is sent with isFinal
SendAudioChunk(chunk, isFinal) ==
    /\ uttState # NoState
    /\ ~uttFinal
    /\ isFinal \/ uttSent < MaxInterimChunks
    /\ toServer' = Append(toServer, ClientAudio(SessionID, chunk, isFinal))
    /\ uttSent' = uttSent + 1
    /\ uttFinal' = isFinal
    /\ UNCHANGED <<uttState, toClient, uttTranscript, userTurns, modelCalls, resent>>
    /\ UNCHANGED exceptUtterance

\* one iteration of the server's read loop on the next message of the socket
ServerHandle(env) ==
    /\ uttState # NoState
    /\ toServer # <<>>
    /\ LET did == HandleInbound(uttState, Head(toServer), env)
       IN /\ uttState' = did.st
          /\ toClient' = toClient \o did.events
          /\ userTurns' = userTurns + UserTurnsIn(did.calls)
          /\ modelCalls' = modelCalls + CountIn(did.calls, {"GenerateResponse", "StreamResponse"})
          /\ uttTranscript' = IF CountIn(did.calls, {"TranscribeBuffer"}) > 0
                              THEN env.asr.text ELSE uttTranscript
    /\ toServer' = Tail(toServer)
    /\ UNCHANGED <<uttSent, uttFinal, resent>>
    /\ UNCHANGED exceptUtterance

\* the socket's message listener: the next message of the server reaches the client
ClientReceive ==
    /\ uttState # NoState
    /\ toClient # <<>>
    /\ LET sends == handleSpeechSocketMessage(normalizeSpeechSocketMessage(Head(toClient)),
                                              SessionID)
       IN /\ toServer' = toServer \o sends
          /\ resent' = resent + Len(sends)
    /\ toClient' = Tail(toClient)
    /\ UNCHANGED <<uttState, uttSent, uttFinal, uttTranscript, userTurns, modelCalls>>
    /\ UNCHANGED exceptUtterance

SendAudioStep == \E chunk \in {<<1>>, <<2>>}, isFinal \in BOOLEAN : SendAudioChunk(chunk, isFinal)

ServerHandleStep == \E env \in UtteranceEnvs : ServerHandle(env)

UtteranceNext == SendAudioStep \/ ServerHandleStep \/ ClientReceive

AuxParked == TranscriptParked /\ HandshakeParked /\ UtteranceParked

ExtParked == SessParked /\ CallParked /\ PeerParked /\ EmoParked /\ RouteParked /\ AuxParked

(***************************************************************************)
(* Specifications: one per component, the other components at rest         *)
(***************************************************************************)
CodecInit ==
    /\ frame \in ValidFrames
    /\ CodecStart
    /\ AsrParked
    /\ TtsParked
    /\ PoolParked
    /\ ExtParked

SpecCodec == CodecInit /\ [][CodecNext]_vars

InitASR ==
    /\ CodecParked
    /\ AsrInit
    /\ TtsParked
    /\ PoolParked
    /\ ExtParked

SpecASR == InitASR /\ [][AsrNext]_vars

InitTTS ==
    /\ CodecParked
    /\ AsrParked
    /\ TtsInit
    /\ PoolParked
    /\ ExtParked

SpecTTS == InitTTS /\ [][TtsNext]_vars

\* the synthesis over the voice ids of the bundled personas (persona.go) and
\* the configured voices of the speaker-candidate test table
PersonaVoices == {"hogwarts-young-hero", "athens-wise-mentor", "ZH_voice"}

PersonaFallbacks == {"zh_male_M392_conversation_wvae_bigtts", "zh_voice"}

PersonaTtsInit ==
    /\ ttsReq \in [Text : RequestTexts, Voice : PersonaVoices, Format : {""}]
    /\ ttsConfig \in [TTSVoice : PersonaFallbacks, credentials : BOOLEAN]
    /\ TtsStart

InitPersonaTTS ==
    /\ CodecParked
    /\ AsrParked
    /\ PersonaTtsInit
    /\ PoolParked
    /\ ExtParked

SpecPersonaTTS == InitPersonaTTS /\ [][TtsNext]_vars

PoolStart == maxRetries \in 0 .. MaxRetryBudget /\ PoolInit

InitPool ==
    /\ CodecParked
    /\ AsrParked
    /\ TtsParked
    /\ PoolStart
    /\ ExtParked

SpecPool == InitPool /\ [][PoolNext]_vars

\* the ticker of every running pingLoop keeps firing and its select keeps being served
PingFairness == \A p \in PingTasks : WF_vars(PingStep(p))

SpecPoolLive == InitPool /\ [][PoolLiveNext]_vars /\ PingFairness

InitSession ==
    /\ CodecParked
    /\ AsrParked
    /\ TtsParked
    /\ PoolParked
    /\ SessInit
    /\ CallParked
    /\ PeerParked
    /\ AuxParked
    /\ RouteParked
    /\ EmoParked

SpecSession == InitSession /\ [][SessNext]_vars

\* audio of no, one and two chunks; one call is followed at a time
CallAudio ==
    /\ audioData \in {AudioOf(n) : n \in {0, 1, chunkSize + 1}}
    /\ AsrStart

InitCall ==
    /\ CodecParked
    /\ CallAudio
    /\ TtsParked
    /\ PoolParked
    /\ SessParked
    /\ CallParked
    /\ PeerParked
    /\ AuxParked
    /\ RouteParked
    /\ EmoParked

\* every task that can take a step eventually takes one; the server and the caller owe nothing
CallFairness ==
    /\ WF_vars(SendStep)
    /\ WF_vars(RecvStep)
    /\ WF_vars(MainStep)
    /\ WF_vars(TtsWaitSelect)

SpecCall == InitCall /\ [][CallNext]_vars /\ CallFairness

InitEmotion ==
    /\ CodecParked
    /\ AsrParked
    /\ TtsParked
    /\ PoolParked
    /\ SessParked
    /\ CallParked
    /\ PeerParked
    /\ AuxParked
    /\ RouteParked
    /\ EmoInit

SpecEmotion == InitEmotion /\ [][EmoNext]_vars

InitVoice ==
    /\ CodecParked
    /\ AsrParked
    /\ TtsParked
    /\ PoolParked
    /\ SessParked
    /\ CallParked
    /\ PeerParked
    /\ AuxParked
    /\ RouteParked
    /\ EmoRest
    /\ VoiceInit

SpecVoice == InitVoice /\ [][VoiceNext]_vars

InitRoutes ==
    /\ CodecParked
    /\ AsrParked
    /\ TtsParked
    /\ PoolParked
    /\ SessParked
    /\ CallParked
    /\ PeerParked
    /\ AuxParked
    /\ EmoParked
    /\ RouteInit

SpecRoutes == InitRoutes /\ [][RouteNext]_vars

\* everything outside the auxiliary models at rest
CoreParked ==
    /\ CodecParked
    /\ AsrParked
    /\ TtsParked
    /\ PoolParked
    /\ SessParked
    /\ CallParked
    /\ PeerParked
    /\ EmoParked
    /\ RouteParked

InitTranscript ==
    /\ CoreParked
    /\ TranscriptInit
    /\ HandshakeParked
    /\ UtteranceParked

SpecTranscript == InitTranscript /\ [][TranscriptNext]_vars

InitHandshake ==
    /\ CoreParked
    /\ TranscriptParked
    /\ HandshakeInit
    /\ UtteranceParked

SpecHandshake == InitHandshake /\ [][HandshakeNext]_vars

InitUtterance ==
    /\ CoreParked
    /\ TranscriptParked
    /\ HandshakeParked
    /\ UtteranceInit

SpecUtterance == InitUtterance /\ [][UtteranceNext]_vars

(***************************************************************************)
(* Frame codec properties                                                  *)
(***************************************************************************)

\* C1: for every valid frame, decoding the bytes produced by EncodeMessage
\* yields a message equal to the original in every field (header, sequence,
\* event type, session id, connect id, error code, payload size, payload).
C1_RoundTrip ==
    (codecPc = "decoded" /\ ~truncated /\ wire = EncodeMessage(frame))
        => (decoded.ok /\ decoded.msg = frame)

\* C2: DecodeMessage returns an error and no message when the input has fewer
\* than 4 bytes, carries another protocol version, or ends before the bytes
\* that the same input declares (the length a successful decode of the full
\* input consumed) are all present.
C2_DecodeRejects ==
    (codecPc = "decoded"
     /\ \/ Len(wire) < 4
        \/ (Len(wire) >= 4 /\ wire[1] \div 16 # ProtocolVersion)
        \/ (truncated /\ declaredLen >= 0 /\ Len(wire) < declaredLen))
        => (~decoded.ok /\ decoded.err # "" /\ decoded.msg = NilMessage)

\* C2 witness: a frame that decoded in full is cut inside its session id and is rejected
C2_Witness ==
    /\ codecPc = "decoded"
    /\ truncated
    /\ Len(wire) >= 4
    /\ Len(wire) < declaredLen
    /\ ~decoded.ok
    /\ decoded.err = "failed to read session id"

\* C3: IsLastPacket is true exactly when the low two flag bits are 10 or 11,
\* with or without the event bit.
C3_IsLastPacket ==
    isLast # <<>> =>
        (isLast[1] <=> (decoded.msg.Header.MessageFlags % 4) \in {2, 3})

\* C3 witness: a terminal frame that also carries the event bit was classified
C3_Witness ==
    /\ isLast = <<TRUE>>
    /\ decoded.msg.Header.MessageFlags = 7

(***************************************************************************)
(* ASR send task properties                                                *)
(***************************************************************************)
AudioFrames == SelectSeq(asrSent, LAMBDA m : m.Header.MessageType = AudioOnlyRequest)

CeilDiv(a, b) == (a + b - 1) \div b

Abs(x) == IF x < 0 THEN -x ELSE x

SendCompleted == sendPc = "done" /\ sendErr = "" /\ Len(audioData) > 0

\* what C4 and its amendment share: one FullClientRequest first, then exactly
\* ceil(L/C) AudioOnlyRequest frames, only the last of them terminal
FramesAndTerminal ==
    /\ Len(asrSent) = 1 + Len(AudioFrames)
    /\ asrSent[1].Header.MessageType = FullClientRequest
    /\ Len(AudioFrames) = CeilDiv(Len(audioData), chunkSize)
    /\ \A k \in 1 .. Len(AudioFrames) :
          (AudioFrames[k].Header.MessageFlags % 4 \in {2, 3}) <=> (k = Len(AudioFrames))

\* C4 as stated: ... and the sequence numbers carried by those frames are
\* strictly increasing starting from 2.
C4_CarriedIncreasing ==
    SendCompleted =>
        /\ FramesAndTerminal
        /\ AudioFrames[1].Sequence = 2
        /\ \A k \in 1 .. Len(AudioFrames) - 1 :
              AudioFrames[k].Sequence < AudioFrames[k + 1].Sequence

\* C4 amended: for audio of length L > 0, when no cancellation or write error
\* occurs, the send task emits exactly ceil(L/C) AudioOnlyRequest frames after
\* the single FullClientRequest, only the last carries a terminal flag, and
\* the k-th frame is numbered k+1: non-terminal frames carry k+1 with the
\* positive-sequence flag, the last frame carries -(k+1) with the
\* negative-sequence flag.
C4_SendFrames ==
    SendCompleted =>
        /\ FramesAndTerminal
        /\ \A k \in 1 .. Len(AudioFrames) :
              /\ Abs(AudioFrames[k].Sequence) = k + 1
              /\ AudioFrames[k].Header.MessageFlags =
                    (IF k = Len(AudioFrames) THEN NegativeSequenceNumber
                     ELSE PositiveSequenceNumber)
              /\ (AudioFrames[k].Sequence < 0) <=> (k = Len(AudioFrames))

\* C4 witness: audio one byte longer than two chunks was sent in three frames
C4_Witness ==
    /\ SendCompleted
    /\ Len(audioData) = 2 * chunkSize + 1
    /\ Len(AudioFrames) = 3
    /\ AudioFrames[3].Sequence = -4

(***************************************************************************)
(* TTS fallback loop properties                                            *)
(***************************************************************************)
Mismatches(k) == Contains(upstream[k], mismatchPhrase)

Candidates == CandidateList(speakers)

TtsDone == ttsPc = "done" /\ upstream # <<>>

\* C5: if the earlier candidates fail with a resource mismatch and a later
\* candidate succeeds, the call returns that candidate's result with a nil
\* error; no mismatch reaches the caller.
C5_FallbackSucceeds ==
    \A k \in DOMAIN upstream :
        (TtsDone /\ k > 1 /\ upstream[k] = "" /\ \A j \in 1 .. k - 1 : Mismatches(j))
            => /\ ttsErr = NilErr
               /\ ttsResp.attempt = k
               /\ ttsResp.speaker = Candidates[k].speaker
               /\ ttsResp.resourceID = Candidates[k].resourceID

\* C5 witness: both resources of the first voice mismatched, the second voice succeeded
C5_Witness ==
    /\ TtsDone
    /\ Len(ttsAttempts) = 3
    /\ Mismatches(1) /\ Mismatches(2) /\ upstream[3] = ""
    /\ ttsAttempts[3].speaker # ttsAttempts[1].speaker
    /\ ttsErr = NilErr

\* C6: if every candidate fails with a resource mismatch the call fails with
\* the last recorded mismatch; the generic no-candidate error is returned only
\* when no candidate ever produced a mismatch.
C6_AllMismatch ==
    /\ (TtsDone /\ \A k \in DOMAIN upstream : Mismatches(k))
           => /\ ttsResp = NilResp
              /\ ttsErr = [msg |-> upstream[Len(upstream)], attempt |-> Len(upstream)]
              /\ ttsErr = ttsAttempts[Len(ttsAttempts)].err
    /\ (ttsPc = "done" /\ ttsErr = genericError(speakers))
           => \A n \in DOMAIN ttsAttempts : ~Contains(ttsAttempts[n].err.msg, mismatchPhrase)

\* C6 witness: four candidates were tried and all of them mismatched
C6_Witness ==
    /\ TtsDone
    /\ Len(ttsAttempts) = 4
    /\ \A k \in DOMAIN upstream : Mismatches(k)
    /\ ttsErr.attempt = 4

\* C7: the first attempt failing with another error ends the call with that
\* error, and no further candidate is attempted, even after earlier mismatches
\* and before candidates that would succeed.
C7_OtherErrorAborts ==
    \A k \in DOMAIN upstream :
        (TtsDone /\ upstream[k] # "" /\ ~Mismatches(k) /\ \A j \in 1 .. k - 1 : Mismatches(j))
            => /\ ttsErr = [msg |-> upstream[k], attempt |-> k]
               /\ ttsResp = NilResp
               /\ Len(ttsAttempts) = k

\* C7 witness: a mismatch, then another error, while the next candidate would have succeeded
C7_Witness ==
    /\ TtsDone
    /\ Len(upstream) >= 3
    /\ Mismatches(1)
    /\ upstream[2] = "TTS error: quota exceeded"
    /\ upstream[3] = ""
    /\ Len(ttsAttempts) = 2
    /\ ttsErr.msg = "TTS error: quota exceeded"

(***************************************************************************)
(* Connection pool properties                                              *)
(***************************************************************************)
OpenFor(sid) == {c \in DOMAIN connSession : connSession[c] = sid /\ c \notin closedConns}

\* C8: the pool holds at most one connection per session id: adding a
\* connection for a session id that already has one closes the previously
\* stored connection, and GetConnection then returns the new connection.
C8_OnePerSession ==
    /\ \A sid \in Sessions : Cardinality(OpenFor(sid)) <= 1
    /\ lastOp.op = "add" =>
          /\ (lastOp.old # 0 => lastOp.old \in closedConns)
          /\ GetConnection(connections, lastOp.sid) = <<lastOp.conn, TRUE>>

\* C8 witness: a second connection was added for a session id that had one
C8_Witness ==
    /\ lastOp.op = "add"
    /\ lastOp.old # 0
    /\ lastOp.old # lastOp.conn
    /\ lastOp.old \in closedConns
    /\ connections[lastOp.sid] = lastOp.conn
    /\ lastOp.conn \notin closedConns

AllAttemptsFailed == retryPc = "done" /\ retryCtx \notin cancelled /\ retryConn = 0

\* C9: against a target that always fails and with no cancellation,
\* ConnectWithRetry makes exactly MaxRetries attempts, the backoff delays never
\* decrease from one attempt to the next, and the call fails with an error
\* wrapping the last attempt's error.
C9_RetryBudget ==
    AllAttemptsFailed =>
        /\ attempts = maxRetries
        /\ \A k \in 1 .. Len(delays) - 1 : delays[k] <= delays[k + 1]
        /\ retryErr = ExhaustedErr(maxRetries, lastErr)
        /\ retryErr.wrapped = lastErr
        /\ (attempts > 0 =>
               lastErr = [kind |-> "websocket dial failed", attempt |-> attempts])

\* C9 witness: a budget of three was used up with delays of 1, 2 and 3 seconds
C9_Witness ==
    /\ AllAttemptsFailed
    /\ maxRetries = 3
    /\ attempts = 3
    /\ delays = <<1, 2, 3>>
    /\ retryErr.wrapped.attempt = 3

CancelledMidCall ==
    \/ cancelAt.pc = "check"
    \/ (cancelAt.pc = "wait" /\ cancelAt.remaining > 0)

\* C10: if the context is cancelled after a failed attempt or in the middle of
\* a backoff wait, the call returns the cancellation error without starting a
\* further attempt and without waiting out the rest of the backoff.
C10_CancelAborts ==
    (retryPc = "done" /\ CancelledMidCall) =>
        /\ retryErr = CtxError
        /\ retryConn = 0
        /\ attempts = cancelAt.attempts
        /\ (cancelAt.pc = "wait" => remaining = cancelAt.remaining)

\* C10 witness: cancelled with two seconds of the second backoff left, returned at once
C10_Witness ==
    /\ retryPc = "done"
    /\ cancelAt = [pc |-> "wait", attempts |-> 2, remaining |-> 2]
    /\ retryErr = CtxError
    /\ remaining = 2
    /\ attempts = 2

(***************************************************************************)
(* Voice session properties                                                *)
(***************************************************************************)
CountCalls(fn) == Cardinality({i \in DOMAIN calls : calls[i].fn = fn})

UserPersists ==
    Cardinality({i \in DOMAIN calls : calls[i].fn = "SaveMessage" /\ calls[i].sender = "user"})

ModelInvocations == CountCalls("GenerateResponse") + CountCalls("StreamResponse")

ResultEvents(type) ==
    {i \in DOMAIN events : events[i].Type = "result" /\ events[i].Data.type = type}

ErrorEvents == {i \in DOMAIN events : events[i].Type = "error"}

\* the last step handled an interim chunk of a streaming session
InterimHandled ==
    sessPc = "handled" /\ StreamedAudio(connState, lastMsg) /\ ~lastMsg.audio.IsFinal

\* the last step handled the final chunk that follows three interim chunks buffered from empty
FinalAfterThree ==
    /\ sessPc = "handled" /\ StreamedAudio(connState, lastMsg) /\ lastMsg.audio.IsFinal
    /\ Len(interims) = 3

TtsFailed == sessPc = "handled" /\ CountCalls("SynthesizeToBuffer") > 0 /\ ~lastEnv.tts.ok

TtsNotices == {i \in ResultEvents("tts") : "error" \in DOMAIN events[i].Data}

\* C15: when the TTS step of a conversation step fails, exactly one tts
\* message is written and it carries an error, no error event is written,
\* the handler returns to the read loop with the session state kept (the
\* connection is not closed) and the loop goes on to read the next message.
C15_TtsFailureNotice ==
    TtsFailed =>
        /\ Cardinality(TtsNotices) = 1
        /\ ResultEvents("tts") = TtsNotices
        /\ \A i \in TtsNotices : events[i].Data.error = "synthesis failed"
        /\ ErrorEvents = {}
        /\ connState.sessionID = SessionID
        /\ ENABLED LoopBack

C15_Witness ==
    /\ TtsFailed
    /\ lastMsg.Type = "text"
    /\ Cardinality(TtsNotices) = 1

AssistantPersists ==
    Cardinality({i \in DOMAIN calls : calls[i].fn = "SaveMessage" /\ calls[i].sender = "assistant"})

\* the last step made an ASR call, a transcript load, a persist or a model call that failed
AsrCallFailed == CountCalls("TranscribeBuffer") > 0 /\ lastEnv.asr.err # ""

LoadFailed == CountCalls("LoadTranscript") > 0 /\ lastEnv.loadErr # ""

UserPersistFailed == UserPersists > 0 /\ lastEnv.saveUserErr # ""

AssistantPersistFailed == AssistantPersists > 0 /\ lastEnv.saveAssistantErr # ""

ModelCallFailed == ModelInvocations > 0 /\ (lastEnv.ai.err # "" \/ lastEnv.ai.recvErr # "")

\* the failed call is the last call of the step
AbortedAt(fn) == calls[Len(calls)].fn = fn

\* C16: when the ASR call, the transcript load, a persist or the model call
\* made while handling one inbound message fails, that handling stops at
\* the failed call, exactly one error event is written, and the handler
\* returns to the read loop with the session open.
C16_FailureAbortsOneMessage ==
    (sessPc = "handled"
        /\ (AsrCallFailed \/ LoadFailed \/ UserPersistFailed \/ AssistantPersistFailed
               \/ ModelCallFailed))
    => /\ Cardinality(ErrorEvents) = 1
       /\ AsrCallFailed => AbortedAt("TranscribeBuffer")
       /\ LoadFailed => AbortedAt("LoadTranscript")
       /\ (UserPersistFailed \/ AssistantPersistFailed) => AbortedAt("SaveMessage")
       /\ ModelCallFailed => (AbortedAt("GenerateResponse") \/ AbortedAt("StreamResponse"))
       /\ connState.sessionID = SessionID
       /\ ENABLED LoopBack

\* the same for every failure but that of persisting the assistant's reply
C16_ExceptReplyPersist == AssistantPersistFailed \/ C16_FailureAbortsOneMessage

\* the settings of a connectionState
Settings(st) ==
    [persona |-> st.persona, language |-> st.language, voice |-> st.voice,
     asrEnabled |-> st.asrEnabled, ttsEnabled |-> st.ttsEnabled, streamMode |-> st.streamMode]

\* this step is one iteration of the read loop
HandleStep == sessPc = "open" /\ sessPc' = "handled"

Addressed(st, msg) == msg.SessionID \in {"", st.sessionID}

\* the language and format in effect for an audio message: its own, when it names one
LanguageFor(st, msg) ==
    IF msg.Type = "audio" /\ msg.valid /\ st.asrEnabled /\ msg.audio.Language # ""
    THEN msg.audio.Language ELSE st.language

FormatFor(st, msg) ==
    IF msg.audio.Format # "" THEN msg.audio.Format
    ELSE IF st.audioFormat # "" THEN st.audioFormat ELSE "wav"

\* a config message leaves every setting it names in the state the next message is handled with
ConfigVisible(cfg, after) ==
    /\ cfg.Language # "" => after.language = cfg.Language
    /\ cfg.Voice # "" => after.voice = cfg.Voice
    /\ (cfg.PersonaID # "" /\ FindByID(cfg.PersonaID)) => after.persona = cfg.PersonaID
    /\ cfg.ASREnabled # <<>> => after.asrEnabled = cfg.ASREnabled[1]
    /\ cfg.TTSEnabled # <<>> => after.ttsEnabled = cfg.TTSEnabled[1]
    /\ cfg.StreamMode # <<>> => after.streamMode = cfg.StreamMode[1]

\* an audio or text message is handled with the settings st it found
HandledWith(st, msg, cs, evs) ==
    /\ \A i \in DOMAIN cs :
          /\ cs[i].fn = "TranscribeBuffer" =>
                /\ msg.Type = "audio" /\ st.asrEnabled /\ (msg.audio.IsFinal \/ ~st.streamMode)
                /\ cs[i].language = LanguageFor(st, msg)
                /\ cs[i].format = FormatFor(st, msg)
          /\ cs[i].fn = "SynthesizeToBuffer" =>
                /\ st.ttsEnabled
                /\ cs[i].voice = st.voice
                /\ cs[i].language = LanguageFor(st, msg)
          /\ cs[i].fn \in {"GenerateResponse", "StreamResponse"} => cs[i].persona = st.persona
    /\ (msg.Type = "audio" /\ ~st.asrEnabled) => (cs = <<>> /\ Len(evs) = 1)
    /\ (msg.Type = "audio" /\ msg.valid /\ st.asrEnabled /\ ~st.streamMode
            /\ Len(st.buffer) + Len(msg.audio.AudioData) > 0)
          => \E i \in DOMAIN cs : cs[i].fn = "TranscribeBuffer"

\* C17: inbound messages are handled one at a time, each to its end before
\* the next is read: a config message leaves the settings it names in the
\* session state, only config messages (and the language of an audio
\* message) change the settings, and every audio or text message makes its
\* calls with the settings left by the messages handled before it.
C17_ConfigVisibleInOrder ==
    [][/\ HandleStep =>
            /\ (lastMsg'.Type = "config" /\ lastMsg'.valid /\ Addressed(connState, lastMsg'))
                  => (ConfigVisible(lastMsg'.cfg, connState') /\ calls' = <<>>)
            /\ (lastMsg'.Type \in {"audio", "text"} /\ Addressed(connState, lastMsg'))
                  => /\ HandledWith(connState, lastMsg', calls', events')
                     /\ Settings(connState')
                           = [Settings(connState) EXCEPT !.language = LanguageFor(connState, lastMsg')]
            /\ ~(lastMsg'.Type \in {"audio", "text", "config"} /\ Addressed(connState, lastMsg'))
                  => (connState' = connState /\ calls' = <<>>)
       /\ (sessPc = "handled" /\ sessPc' = "open") => connState' = connState
      ]_vars

\* a turn made with a voice and a language that an earlier config message set
C17_Witness ==
    /\ sessPc = "handled" /\ lastMsg.Type = "text"
    /\ \E i \in DOMAIN calls :
          /\ calls[i].fn = "SynthesizeToBuffer"
          /\ calls[i].voice = "v9" /\ calls[i].language = "en-US"
    /\ \E i \in DOMAIN calls : calls[i].fn = "GenerateResponse" /\ calls[i].persona = "p2"
    /\ connState.voice = "v9" /\ ~connState.streamMode

ConfigOf(cfg) == Inbound("config", "", TRUE, NoAudio, "", cfg)

\* the acknowledgement reports the settings of st
AckReports(ack, st) ==
    /\ ack.Type = "result" /\ ack.SessionID = st.sessionID
    /\ ack.Data = [type |-> "config", persona |-> st.persona, language |-> st.language,
                   voice |-> st.voice, asr |-> st.asrEnabled, tts |-> st.ttsEnabled,
                   streamMode |-> st.streamMode]

\* after is st with exactly the settings changed that cfg specifies
MergedOnly(st, cfg, after) ==
    /\ after.language = (IF cfg.Language = "" THEN st.language ELSE cfg.Language)
    /\ after.voice = (IF cfg.Voice = "" THEN st.voice ELSE cfg.Voice)
    /\ after.persona = (IF cfg.PersonaID = "" \/ cfg.PersonaID = st.persona \/ ~FindByID(cfg.PersonaID)
                        THEN st.persona ELSE cfg.PersonaID)
    /\ after.asrEnabled = (IF cfg.ASREnabled = <<>> THEN st.asrEnabled ELSE cfg.ASREnabled[1])
    /\ after.ttsEnabled = (IF cfg.TTSEnabled = <<>> THEN st.ttsEnabled ELSE cfg.TTSEnabled[1])
    /\ after.streamMode = (IF cfg.StreamMode = <<>> THEN st.streamMode ELSE cfg.StreamMode[1])
    /\ after.sessionID = st.sessionID
    /\ after.audioFormat = st.audioFormat
    /\ after.buffer = st.buffer

\* C18: for every state the session reaches and every config message,
\* applyConfig changes only the settings the message specifies (an empty
\* language or voice, a nil flag, and a persona id that is empty, unchanged
\* or unknown leave the setting as it was), and the acknowledgement written
\* reports the settings as they are after the merge.
C18_ConfigMerges ==
    /\ sessPc = "open" =>
          \A cfg \in AllConfigs :
             LET did == handleConfigMessage(connState, ConfigOf(cfg))
             IN /\ did.st = applyConfig(connState, cfg)
                /\ MergedOnly(connState, cfg, did.st)
                /\ Len(did.events) = 1 /\ AckReports(did.events[1], did.st)
                /\ did.calls = <<>>
    /\ (sessPc = "handled" /\ lastMsg.Type = "config" /\ lastMsg.valid)
          => (Len(events) = 1 /\ AckReports(events[1], connState))

\* a config message that names every setting was applied
C18_Witness ==
    /\ sessPc = "handled" /\ lastMsg.Type = "config" /\ lastMsg.valid
    /\ lastMsg.cfg.Voice = "v9" /\ lastMsg.cfg.PersonaID = "p2" /\ lastMsg.cfg.StreamMode = <<FALSE>>
    /\ connState.language = "en-US" /\ connState.persona = "p2" /\ connState.voice = "v9"
    /\ Len(events) = 1 /\ AckReports(events[1], connState)

\* the error texts the collaborators returned during the last step
UpstreamTexts ==
    {lastEnv.asr.err, lastEnv.loadErr, lastEnv.saveUserErr, lastEnv.ai.err, lastEnv.ai.recvErr}
        \ {""}

\* the literal messages and message prefixes of the handler
ClientMessages ==
    {"session mismatch", "unsupported message type", "invalid audio payload",
     "invalid text payload", "invalid config payload", "chat service unavailable",
     "ai service unavailable", "ASR failed", "load transcript failed",
     "save user message failed", "ai generation failed", "ai streaming failed",
     "ai stream recv failed"}

\* C19: the message of every error event written to the client is one of a
\* fixed set of short messages (followed at most by the offending message
\* type), and no error text returned by an upstream call (payload, API
\* code, wrapped transport error) appears in it.
C19_FixedErrorMessages ==
    \A i \in ErrorEvents :
        /\ \E m \in ClientMessages : HasPrefix(events[i].Data.message, m)
        /\ \A u \in UpstreamTexts : ~Contains(events[i].Data.message, u)


(***************************************************************************)
(* ASR call and TTS attempt properties                                     *)
(***************************************************************************)
\* the send task, the receive task and the call itself are over
CallOver == asrPc = "returned" /\ sendPc = "exited" /\ recvPc = "exited"

\* the server's terminal frame or Error frame has been read, or the caller's context is done
EndTriggered == TasksStarted /\ (recvCause \in {"terminal", "error"} \/ callerDone)

\* C12: once the server's terminal frame or an Error frame has been received, or the caller's
\* context has expired, the send task and the receive task both terminate and
\* TranscribeAudioWS returns
C12_TasksTerminate == EndTriggered ~> CallOver

\* the call has not returned although the caller's context is done, every chunk was sent and
\* reported, and the receive task sits in conn.ReadMessage
C12_StuckAfterSend ==
    /\ asrPc = "running"
    /\ callerDone
    /\ sendDone
    /\ sendPc = "exited"
    /\ recvPc = "read"
    /\ ~connClosed

\* the part that the code does guarantee: after the terminal frame or an Error frame has been
\* read, both tasks end and the call returns
C12_AfterServerEnd == (recvCause \in {"terminal", "error"}) ~> CallOver

\* C13: when the caller's context is cancelled while a call waits for the next server frame,
\* the call returns without any further server frame, for a recognition call (also after all
\* audio was sent) and for a synthesis attempt
C13_CancelEndsWait ==
    /\ (asrPc = "running" /\ recvPc = "read" /\ callerDone) ~> (asrPc = "returned")
    /\ (ttsWaitPc = "read" /\ ttsCtxDone) ~> (ttsWaitPc = "returned")

\* a synthesis attempt sits in conn.ReadMessage while its context is done
C13_TtsStuckInRead == ttsWaitPc = "read" /\ ttsCtxDone

\* the part that the code does guarantee: a cancellation that the select of the receive loop
\* sees ends the attempt with the context's error
C13_CancelSeenAtSelect ==
    (ttsWaitPc = "select" /\ ttsCtxDone) ~> (ttsWaitPc = "returned")


(***************************************************************************)
(* Keepalive properties                                                    *)
(***************************************************************************)
\* the peer of connection c has stopped responding
Unresponsive(c) == peer[c] # "up"

\* C14: a pooled connection whose peer stops responding is eventually removed from the pool,
\* also when the context that created it is already cancelled and when the probe writes
\* still succeed locally while no answer ever arrives
C14_UnresponsivePruned ==
    \A c \in 1 .. MaxConns : (Pooled(c) /\ Unresponsive(c)) ~> ~Pooled(c)

\* a pooled connection with a silent peer whose pingLoop has ended on ctx.Done()
C14_PooledWithoutKeepalive ==
    \E c \in 1 .. MaxConns :
        /\ Pooled(c)
        /\ Unresponsive(c)
        /\ \A p \in pingers : p.conn # c
        /\ connSession[c] \in Sessions

\* a pooled connection with a silent peer whose pingLoop runs with a live context
C14_MutePeerProbed ==
    \E p \in pingers : Pooled(p.conn) /\ peer[p.conn] = "mute" /\ p.ctx \notin cancelled

\* the part that the code does guarantee: a broken transport is noticed by the next probe, as
\* long as the creating context is not cancelled first
C14_DeadPeerPruned ==
    \A p \in PingTasks :
        (p \in pingers /\ Pooled(p.conn) /\ peer[p.conn] = "dead")
            ~> (~Pooled(p.conn) \/ p.ctx \in cancelled)


(***************************************************************************)
(* Emotion engine properties                                               *)
(***************************************************************************)
\* C20: every decision returned by Analyze and by Service.Analyze, its fallback path
\* included, has a label of the closed set and an intensity between 1 and 5 inclusive
C20_DecisionInRange ==
    emoKind # "" =>
        /\ emoOut.Decision.Emotion \in EmotionLabels
        /\ emoOut.Decision.Scale >= 1 * ScaleUnit
        /\ emoOut.Decision.Scale <= 5 * ScaleUnit

\* the classifier's own answer was used although the intensity it named is above 5
C20_Witness ==
    /\ emoKind = "service"
    /\ emoEnabled
    /\ emoOut.Reason # "fallback"
    /\ emoReply.json.ok
    /\ emoReply.json.payload.Scale > 5 * ScaleUnit
    /\ emoOut.Decision.Scale = 5 * ScaleUnit

\* the heuristic formula gave more than 5 before the final clamp
C20_HeuristicClamped ==
    /\ emoKind = "heuristic"
    /\ emoOut.Decision.Emotion = Excited
    /\ 2 * ScaleUnit + emoOut.Decision.Score + ScaleUnit > 5 * ScaleUnit
    /\ emoOut.Decision.Scale = 5 * ScaleUnit

\* the fallback path of Service.Analyze was taken because the label is outside the set
C20_FallbackOnLabel ==
    /\ emoKind = "service"
    /\ emoEnabled
    /\ emoReply.json.ok
    /\ ~parseEmotionLabel(emoReply.json.payload.Emotion).ok
    /\ emoOut.Reason = "fallback"


\* no label has a positive score in the text
NoSignal(text) == \A label \in BucketLabels : textScores(text)[label] <= 0

\* the labels that share the top score of a text that has a positive score
TopLabels(text) ==
    {label \in BucketLabels :
        /\ textScores(text)[label] > 0
        /\ \A other \in BucketLabels : textScores(text)[other] <= textScores(text)[label]}

\* C21: when neither the user text nor the assistant text has a positive score for any
\* label, Analyze returns neutral with the default intensity 3 and score 0
C21_NoSignalNeutral ==
    (emoKind = "heuristic" /\ NoSignal(emoUser) /\ NoSignal(emoAi)) =>
        emoOut.Decision = Decision(Neutral, 3 * ScaleUnit, 0)

\* Analyze was called on two texts without any keyword or exclamation mark
C21_Witness ==
    /\ emoKind = "heuristic"
    /\ emoUser = "ok"
    /\ emoAi = "  "
    /\ emoOut.Decision.Emotion = Neutral

\* the coercion table of the claim; a label it does not name is handed through
CoercionTable(label) ==
    CASE label = Sad -> Comfort
      [] label = Angry -> Magnetic
      [] label = Excited -> Excited
      [] label = Happy -> Happy
      [] label = Tender -> Tender
      [] label = Comfort -> Tender
      [] OTHER -> label

\* C22: Analyze returns the assistant text's top-scoring label whenever that text has a
\* positive score, whatever the user text; when the assistant text scores zero and the user
\* text scores positive, it returns the user's top label remapped by the coercion table
C22_AssistantWinsElseCoerced ==
    emoKind = "heuristic" =>
        /\ ~NoSignal(emoAi) => emoOut.Decision.Emotion \in TopLabels(emoAi)
        /\ (NoSignal(emoAi) /\ ~NoSignal(emoUser)) =>
               emoOut.Decision.Emotion \in {CoercionTable(label) : label \in TopLabels(emoUser)}

\* a sad user and an assistant text without signal: the reply's tone is comfort
C22_Witness ==
    /\ emoKind = "heuristic"
    /\ emoUser = "I am sad"
    /\ emoAi = "ok"
    /\ emoOut.Decision.Emotion = Comfort

\* the assistant text has a signal of its own and the user text a different one
C22_AssistantOverUser ==
    /\ emoKind = "heuristic"
    /\ emoUser = "so angry"
    /\ emoAi = "calm down"
    /\ emoOut.Decision.Emotion \in {Tender, Comfort}

\* Service.Analyze took its fallback path
FallbackTaken == emoKind = "service" /\ emoOut.Reason = "fallback"

\* the conditions under which the claim requires the fallback
FallbackDue ==
    /\ emoKind = "service"
    /\ \/ ~emoEnabled
       \/ emoReply.err
       \/ emoReply.nilMsg
       \/ TrimSpace(emoReply.Content) = ""
       \/ ~parseClassifierOutput(emoReply).ok
       \/ ToLower(TrimSpace(emoReply.json.payload.Emotion)) \notin EmotionLabels

\* the confidence given to a model-backed result that names none
DefaultModelConfidence == 60

\* C23: whenever the analysis is disabled, the classifier fails or returns empty content, its
\* output cannot be parsed or its label is outside the closed set, Service.Analyze returns the
\* heuristic decision for the same texts with one confidence that is the same on every
\* fallback and lower than the default confidence of a model-backed result
C23_FallbackFixedConfidence ==
    FallbackDue =>
        /\ emoOut.Decision \in Analyze(emoUser, emoAi)
        /\ emoOut.Confidence < DefaultModelConfidence
        /\ \A user \in EmotionTexts, assistant \in EmotionTexts :
               \A guidance \in fallbackGuidance(user, assistant) :
                   guidance.Confidence = emoOut.Confidence

\* the part that the code does guarantee: the heuristic decision for the same texts, marked
\* as fallback, with a confidence below the default of a model-backed result
C23_FallbackIsHeuristic ==
    FallbackDue =>
        /\ FallbackTaken
        /\ emoOut.Decision \in Analyze(emoUser, emoAi)
        /\ emoOut.Confidence < DefaultModelConfidence

\* a fallback whose heuristic decision has a positive score
C23_ScoredFallback == FallbackTaken /\ emoEnabled /\ emoOut.Decision.Score > 0


(***************************************************************************)
(* Voice and resource candidates of one synthesis request                  *)
(***************************************************************************)
\* the candidates of the request have been built
SpeakersResolved == ttsPc # "idle" /\ speakers # <<>>

\* resolveTTSSpeakerCandidates has just returned
SpeakersBuilt == ttsPc = "loop" /\ ttsAttempts = <<>>

requestedVoice == TrimSpace(ttsReq.Voice)
fallbackVoice == TrimSpace(ttsConfig.TTSVoice)

\* a voice name that is a key of the alias table and stands for another id
IsAlias(voice) ==
    /\ ToLower(voice) \in aliasKeys
    /\ aliasMap(fallbackVoice)[ToLower(voice)] # voice

\* the id a name stands for: the alias table's entry, or the name itself
VoiceId(voice) ==
    IF ToLower(voice) \in aliasKeys THEN aliasMap(fallbackVoice)[ToLower(voice)] ELSE voice

\* C24: resolveTTSSpeakerCandidates returns a non-empty list, the requested
\* voice before the configured fallback voice, with aliases replaced by the
\* ids they stand for, without blank entries and without two entries that
\* are equal when compared case-insensitively.
C24_SpeakerCandidates ==
    SpeakersBuilt =>
        /\ Len(speakers) >= 1
        /\ \A i \in 1 .. Len(speakers) : TrimSpace(speakers[i]) # ""
        /\ \A i \in 1 .. Len(speakers) : ~IsAlias(speakers[i])
        /\ \A i, j \in 1 .. Len(speakers) : i # j => ~EqualFold(speakers[i], speakers[j])
        /\ requestedVoice # "" => speakers[1] = VoiceId(requestedVoice)
        /\ (fallbackVoice # "" /\ Len(speakers) = 2) => speakers[2] = VoiceId(fallbackVoice)

\* both voices blank: the list holds the blank fallback
C24_BlankEntry ==
    /\ SpeakersResolved
    /\ requestedVoice = "" /\ fallbackVoice = ""
    /\ speakers = <<"">>

\* the alias "default" stands for the configured voice, itself an alias
C24_AliasKept ==
    /\ SpeakersResolved
    /\ requestedVoice = "default" /\ fallbackVoice = "tavern-guide"
    /\ speakers = <<"tavern-guide", "zh_female_vv_venus_bigtts">>

\* with a configured voice that is a voice id, the list is as C24 describes
C24_WithVoiceIdConfigured ==
    (SpeakersBuilt /\ fallbackVoice # "" /\ ToLower(fallbackVoice) \notin aliasKeys)
        => C24_SpeakerCandidates

ClonePrefixed(voice) == HasPrefix(voice, "S_")

SeedHinted(voice) ==
    LET lowered == ToLower(voice)
    IN \E hint \in {"bigtts", "seed", "megatts", "uranus", "venus", "jupiter", "saturn",
                    "neptune", "mercury", "pluto", "mars"} : Contains(lowered, hint)

\* the resources tried so far for the speaker in turn, in the order tried
RECURSIVE ResourcesTried(_, _)
ResourcesTried(tried, speaker) ==
    IF tried = <<>> THEN <<>>
    ELSE (IF Head(tried).speaker = speaker THEN <<Head(tried).resourceID>> ELSE <<>>)
         \o ResourcesTried(Tail(tried), speaker)

\* the list the three cases of C25 give for a voice
ResourcesByCase(voice) ==
    IF ClonePrefixed(voice) THEN <<"volc.megatts.default">>
    ELSE IF SeedHinted(voice) THEN <<"seed-tts-2.0", "volc.service_type.10029">>
    ELSE <<"volc.service_type.10029", "seed-tts-2.0">>

\* C25: resolveTTSResourceCandidates gives the clone resource alone for a
\* clone-prefixed voice, seed resource then legacy default for a voice with
\* a seed hint, legacy default then seed resource for every other voice,
\* the empty one included; the list is never empty.  Each attempt uses the
\* resource the list holds at the attempt's turn for its speaker.
C25_ResourceCandidates ==
    /\ SpeakersBuilt =>
          \A i \in 1 .. Len(speakers) :
              /\ Len(resolveTTSResourceCandidates(speakers[i])) >= 1
              /\ resolveTTSResourceCandidates(speakers[i]) = ResourcesByCase(speakers[i])
    /\ ttsAttempts # <<>> =>
          LET last == ttsAttempts[Len(ttsAttempts)]
              turn == Len(ResourcesTried(ttsAttempts, last.speaker))
              candidates == ResourcesByCase(last.speaker)
          IN turn <= Len(candidates) /\ last.resourceID = candidates[turn]

\* a request whose candidates are a clone voice with a seed hint in its name
\* and a seed voice, both resources of the second tried
C25_Witness ==
    /\ SpeakersResolved
    /\ speakers = <<"S_seed01", "zh_female_vv_venus_bigtts">>
    /\ ResourcesTried(ttsAttempts, "S_seed01") = <<"volc.megatts.default">>
    /\ ResourcesTried(ttsAttempts, "zh_female_vv_venus_bigtts")
         = <<"seed-tts-2.0", "volc.service_type.10029">>

\* the empty voice is tried on the legacy default first
C25_EmptyVoice ==
    /\ SpeakersResolved
    /\ speakers = <<"">>
    /\ ResourcesTried(ttsAttempts, "") = <<"volc.service_type.10029", "seed-tts-2.0">>


(***************************************************************************)
(* TTS emotion parameters                                                  *)
(***************************************************************************)
\* the voice is on the allow-list or its name carries the emotion marker
VoiceCapable(voiceIn) ==
    LET name == ToLower(TrimSpace(voiceIn))
    IN name \in emotionVoiceWhitelist \/ Contains(name, "_emo")

C27_Unsupported ==
    /\ paramsPc = "done"
    /\ paramsVoice = "emotional_voice"
    /\ paramsDecision.Emotion # Neutral /\ paramsDecision.Score > 0
    /\ paramsOut.enable = FALSE

\* parameters left out for a neutral decision of the classifier
C27_NeutralScored ==
    /\ paramsPc = "done"
    /\ paramsVoice = "custom_emo"
    /\ paramsDecision.Emotion = Neutral /\ paramsDecision.Score > 0
    /\ paramsOut.enable = FALSE


(***************************************************************************)
(* Realtime route                                                          *)
(***************************************************************************)
\* one of the speech service, the model, the chat store, the persona store is absent
CollaboratorAbsent ==
    \/ ~collaborators.speechSvc
    \/ ~collaborators.aiSvc
    \/ ~collaborators.chatSvc
    \/ ~collaborators.personaStore

\* C26: with the speech service, the model, the chat store or the persona
\* store absent at route registration, every request to the realtime route
\* is answered 501 and no realtime session is opened; an open session's
\* handler holds the model and both stores, and its conversation steps
\* never end with a service found unavailable.
C26_UnavailableRefused ==
    /\ (routePc = "registered" /\ CollaboratorAbsent) =>
          /\ wsRoute = "fallback"
          /\ wsRequests > 0 => wsStatus = 501
          /\ ~wsOpen /\ wsOpened = 0
    /\ wsOpen =>
          /\ wsHandler.aiSvc /\ wsHandler.chatSvc /\ wsHandler.personaStore
          /\ stepResult \notin {"chat service unavailable", "ai service unavailable"}

\* a second request refused with the model alone absent
C26_Witness ==
    /\ routePc = "registered"
    /\ ~collaborators.aiSvc
    /\ collaborators.speechSvc /\ collaborators.chatSvc /\ collaborators.personaStore
    /\ wsRequests = 2
    /\ wsStatus = 501
    /\ wsOpened = 0
    /\ stepResult = ""

\* an open session whose conversation step produced a reply
C26_OpenSessionReplies ==
    /\ wsOpen
    /\ ~collaborators.emotionSvc
    /\ stepResult = "replied"


(***************************************************************************)
(* The synthesis attempt's receive loop                                    *)
(***************************************************************************)
\* the attempt has read and decoded a frame
TtsFrameRead == ttsFrame # NoTtsFrame /\ ttsFrame.readOk /\ ttsFrame.decodeOk

\* the frame ends the session: it carries the session-finished event, a
\* terminal framing flag, or a negative sequence number
TtsTerminalFrame(f) ==
    \/ BitAnd(f.MessageFlags, WithEvent) = WithEvent /\ f.EventType = EventTypeSessionFinished
    \/ BitAnd(f.MessageFlags, 3) \in {LastPacketNoSequence, NegativeSequenceNumber}
    \/ f.jsonOk /\ f.Sequence < 0

\* C28: the attempt stops reading and returns as soon as it receives a
\* frame that is the session-finished event, carries a terminal framing
\* flag or a negative sequence number, whatever the frame's message type
\* (audio-only frames and frames whose flags combine the event bit with
\* sequence bits included).
C28_TerminalFrameReturns ==
    (TtsFrameRead /\ TtsTerminalFrame(ttsFrame)) => ttsWaitPc = "returned"

\* the loop goes on after an audio-only frame flagged as the last packet
C28_AudioOnlyLastPacketReadOn ==
    /\ TtsFrameRead
    /\ ttsFrame.MessageType = AudioOnlyServerResponse
    /\ ttsFrame.MessageFlags = NegativeSequenceNumber
    /\ ttsWaitPc = "read"

\* the loop goes on after a session-finished event whose flags also carry sequence bits
C28_CombinedFlagsReadOn ==
    /\ TtsFrameRead
    /\ ttsFrame.MessageType = FullServerResponse
    /\ ttsFrame.MessageFlags = WithEvent + PositiveSequenceNumber
    /\ ttsFrame.EventType = EventTypeSessionFinished
    /\ ttsWaitPc = "read"

\* for full server responses whose flags are the event bit alone or carry no
\* event bit, the attempt returns on the terminal frame
C28_FullResponseReturns ==
    (/\ TtsFrameRead
     /\ TtsTerminalFrame(ttsFrame)
     /\ ttsFrame.MessageType = FullServerResponse
     /\ ttsFrame.MessageFlags \in {NoSequenceNumber, NegativeSequenceNumber, WithEvent})
        => ttsWaitPc = "returned"

\* C29: an attempt that reaches its end of session with no audio bytes
\* accumulated fails with the empty-result error; the attempt never returns
\* success with empty audio data.
C29_NoEmptySuccess ==
    (ttsWaitPc = "returned" /\ ttsWaitErr \in {"", "TTS audio is empty"}) =>
        (ttsWaitErr = "TTS audio is empty" <=> ttsWaitBuf = 0)

\* the end of session reached after audio-only frames without bytes
C29_Witness ==
    /\ ttsWaitPc = "returned"
    /\ TtsFrameRead
    /\ ttsFrame.MessageType = FullServerResponse
    /\ ttsFrame.EventType = EventTypeSessionFinished
    /\ ~ttsFrame.jsonOk
    /\ ttsWaitBuf = 0
    /\ ttsWaitErr = "TTS audio is empty"

\* success with the audio accumulated before the terminal frame
C29_SuccessWithAudio ==
    /\ ttsWaitPc = "returned"
    /\ ttsWaitErr = ""
    /\ TtsFrameRead
    /\ ttsFrame.Data = ""
    /\ ttsWaitBuf = 2


(***************************************************************************)
(* An Error frame during the upload                                        *)
(***************************************************************************)
\* the chunks the audio is cut into, and those written so far
ChunksToSend == (Len(audioData) + chunkSize - 1) \div chunkSize

ChunksSent == IF asrSent = <<>> THEN 0 ELSE Len(asrSent) - 1

\* the send task took the ctx.Done() branch of its pacing select
SendSawCancel == sendErr = "context canceled"

C30_NoWriteAfterCancelSeen == [][SendSawCancel => asrSent' = asrSent]_vars

C30_WriteOnClosedConn ==
    /\ recvCause = "error"
    /\ asrPc = "returned"
    /\ sendErr = "failed to send audio chunk"
    /\ ChunksSent = 1


(***************************************************************************)
(* The transcript of a recognition call                                    *)
(***************************************************************************)
\* the text a parsed frame carries: its text field, or else its utterances joined
FrameText(result) ==
    IF result.Text # "" THEN result.Text ELSE joinUtterances(result.Utterances)

\* the text of the most recent frame with non-empty text, "" if there is none
RECURSIVE LatestText(_)
LatestText(results) ==
    IF results = <<>> THEN ""
    ELSE IF FrameText(results[Len(results)]) # "" THEN FrameText(results[Len(results)])
    ELSE LatestText(SubSeq(results, 1, Len(results) - 1))

\* C31: the transcript returned by a successful call is the text of the most
\* recent full server response with non-empty text, the terminating frame
\* included; a later frame with empty text never erases it.
C31_LatestNonEmptyText ==
    (trPc = "returned" /\ trErr = "") => trText = LatestText(heard)

\* a text frame, then a terminating frame without text: the earlier text is returned
C31_Witness ==
    /\ trPc = "returned" /\ trErr = ""
    /\ Len(heard) = 2
    /\ FrameText(heard[1]) = "hi"
    /\ FrameText(heard[2]) = ""
    /\ trText = "hi"

\* the transcript comes from the utterances of the terminating frame
C31_FromUtterances ==
    /\ trPc = "returned" /\ trErr = ""
    /\ Len(heard) = 2
    /\ heard[1].Text = "yo"
    /\ heard[2] = [Text |-> "", Utterances |-> <<"a", "b">>]
    /\ trText = "a b"


\* an audio message whose payload unmarshals, addressed to the session st
AudioAccepted(st, msg) == msg.Type = "audio" /\ msg.valid /\ Addressed(st, msg)

\* the ASR calls among the calls cs
AsrCalls(cs) == {i \in DOMAIN cs : cs[i].fn = "TranscribeBuffer"}

AsrEvents(evs) == {i \in DOMAIN evs : evs[i].Type = "result" /\ evs[i].Data.type = "asr"}

\* the buffer once the chunk of msg is appended to it
Buffered(st, msg) == st.buffer \o msg.audio.AudioData

\* C32: with ASR enabled, handling an inbound audio message makes an ASR
\* call if and only if the message is final or stream mode is off, and the
\* buffer with the message's chunk appended is not empty; it then makes
\* exactly one.  A non-final message in stream mode only appends its chunk
\* to the buffer: it makes no call and writes no message, so no asr event.
C32_FlushOnFinalOrNonStreaming ==
    [][(HandleStep /\ AudioAccepted(connState, lastMsg') /\ connState.asrEnabled) =>
          LET audio == lastMsg'.audio
          IN /\ AsrCalls(calls') # {}
                   <=> ((audio.IsFinal \/ ~connState.streamMode)
                           /\ Len(Buffered(connState, lastMsg')) > 0)
             /\ Cardinality(AsrCalls(calls')) <= 1
             /\ (~audio.IsFinal /\ connState.streamMode) =>
                   /\ connState'.buffer = Buffered(connState, lastMsg')
                   /\ calls' = <<>> /\ events' = <<>>
      ]_vars

\* a second interim chunk was buffered in stream mode without a call or a message
C32_Witness ==
    /\ sessPc = "handled" /\ AudioAccepted(connState, lastMsg)
    /\ connState.asrEnabled /\ connState.streamMode /\ ~lastMsg.audio.IsFinal
    /\ connState.buffer = <<1, 2>> /\ lastMsg.audio.AudioData = <<2>>
    /\ calls = <<>> /\ events = <<>>

\* the last step flushed the buffer: the handler reached the ASR call
Flushed == sessPc = "handled" /\ AsrCalls(calls) # {}

\* C36: the buffer starts empty; an accepted audio message handled with ASR
\* enabled appends its chunk, and when it flushes, the one ASR call gets
\* exactly the buffer with that chunk appended and the buffer is empty
\* afterwards, whether the ASR call succeeds or fails; every other message
\* (audio handled with ASR disabled, config, text, anything refused) leaves
\* the buffer as it was and makes no ASR call.  So each ASR call gets exactly
\* the chunks accepted since the previous flush, in every interleaving.
C36_BufferPartitioned ==
    [][/\ (sessPc = "new" /\ sessPc' = "open") => connState'.buffer = <<>>
       /\ (sessPc = "handled" /\ sessPc' = "open") => connState'.buffer = connState.buffer
       /\ HandleStep =>
             IF AudioAccepted(connState, lastMsg') /\ connState.asrEnabled
             THEN IF AsrCalls(calls') # {}
                  THEN /\ \A i \in AsrCalls(calls') :
                             calls'[i].audio = Buffered(connState, lastMsg')
                       /\ connState'.buffer = <<>>
                  ELSE connState'.buffer = Buffered(connState, lastMsg')
             ELSE /\ connState'.buffer = connState.buffer
                  /\ AsrCalls(calls') = {}
      ]_vars

\* three chunks were buffered and flushed in one ASR call, which failed, and
\* the buffer is empty afterwards
C36_Witness ==
    /\ Flushed /\ lastEnv.asr.err # ""
    /\ calls[1].audio = <<1, 2, 1>>
    /\ connState.buffer = <<>>


\* C33: every upstream handshake, of an ASR call or of a TTS candidate
\* attempt, carries a correlation id (X-Api-Connect-Id) that differs from the
\* id of every earlier handshake, earlier handshakes of the same session
\* included.
C33_FreshConnectId ==
    \A i, j \in DOMAIN handshakes :
        i < j => handshakes[j].connectID # handshakes[i].connectID

\* the same for the TTS attempts alone
C33_TtsConnectIdFresh ==
    \A i, j \in DOMAIN handshakes :
        (i < j /\ handshakes[j].service = "tts") =>
            handshakes[j].connectID # handshakes[i].connectID

\* two ASR calls of one session were made, and their handshakes carry the same id
C33_AsrConnectIdReused ==
    \E i, j \in DOMAIN handshakes :
        /\ i < j
        /\ handshakes[i].service = "asr" /\ handshakes[j].service = "asr"
        /\ handshakes[i].sessionID = handshakes[j].sessionID
        /\ handshakes[i].connectID = handshakes[j].connectID

\* the correlation id of an ASR handshake is the session id of its request
C33_AsrConnectIdIsSession ==
    \A i \in DOMAIN handshakes :
        handshakes[i].service = "asr" => handshakes[i].connectID = handshakes[i].sessionID


\* the keepalive tasks that end in this step
EndingPingers == pingers \ pingers'

\* the session ids whose stored connection is not the one task p was started for
OthersStored(p) == {sid \in DOMAIN connections : connections[sid] # p.conn}

\* C35: a keepalive task only removes the connection it was started for:
\* the step in which a task ends (its probe failed, or its context was done)
\* leaves every stored connection other than the task's own in the pool and
\* does not close it; so after connection A of a session id was replaced by
\* connection B, a probe failure in A's task neither removes nor closes B.
C35_ProbeRemovesOwnOnly ==
    [][\A p \in EndingPingers :
          \A sid \in OthersStored(p) :
             /\ sid \in DOMAIN connections'
             /\ connections'[sid] = connections[sid]
             /\ connections[sid] \in closedConns' => connections[sid] \in closedConns
      ]_vars

\* the task of connection 1 is still running while connection 2, added for
\* the same session id, is the one stored, and connection 1 is closed: the
\* next probe of the task fails
C35_ReplacedWithTaskRunning ==
    \E p \in pingers :
        /\ p.conn = 1 /\ p.conn \in closedConns
        /\ p.sid \in DOMAIN connections /\ connections[p.sid] = 2
        /\ 2 \notin closedConns

\* a failed probe removes whatever connection is stored under the task's session id
C35_ProbeRemovesBySessionId ==
    [][\A p \in EndingPingers :
          (connections' # connections \/ closedConns' # closedConns) =>
             /\ connections' = RemoveConnection(connections, closedConns, p.sid).connections
             /\ closedConns' = RemoveConnection(connections, closedConns, p.sid).closed
      ]_vars

\* C39: ConnectWithRetry waits only between consecutive attempts: a call
\* with a budget of N >= 1 whose attempts all fail, with no cancellation,
\* makes exactly N - 1 backoff waits, none after the last failed attempt.
C39_WaitsBetweenAttemptsOnly ==
    (AllAttemptsFailed /\ maxRetries >= 1) => Len(delays) = maxRetries - 1

\* the call is in the backoff wait that follows the last attempt of its budget
C39_WaitAfterLastAttempt ==
    /\ retryPc = "wait"
    /\ maxRetries = 3 /\ attempts = maxRetries
    /\ delays = <<1, 2, 3>> /\ remaining = 3

\* every failed attempt is followed by a backoff wait, the last one included
C39_WaitAfterEveryAttempt ==
    AllAttemptsFailed => Len(delays) = maxRetries


\* the synthesis request names the persona alias and the configured voice is the M392 voice
AliasWithFallback ==
    /\ SpeakersBuilt
    /\ requestedVoice = "hogwarts-young-hero"
    /\ fallbackVoice = "zh_male_M392_conversation_wvae_bigtts"

\* C34: for the persona alias "hogwarts-young-hero" requested with the
\* fallback "zh_male_M392_conversation_wvae_bigtts", the speaker candidate
\* list is the alias's canonical voice id
\* "zh_male_junlangnanyou_emo_v2_mars_bigtts" followed by the fallback as a
\* second, distinct candidate.
C34_AliasThenFallback ==
    AliasWithFallback =>
        speakers = <<"zh_male_junlangnanyou_emo_v2_mars_bigtts",
                     "zh_male_M392_conversation_wvae_bigtts">>

\* the alias table maps the alias to the fallback's own id, and the list has that one entry
C34_AliasCollapsesIntoFallback ==
    AliasWithFallback => speakers = <<"zh_male_M392_conversation_wvae_bigtts">>

C34_AliasRequested == AliasWithFallback /\ Len(speakers) = 1

\* the other rows of the test table with these voices come out as the table expects
C34_DuplicatesIgnored ==
    (SpeakersBuilt /\ requestedVoice = "ZH_voice" /\ fallbackVoice = "zh_voice")
        => speakers = <<"ZH_voice">>


\* C38: the heuristic Analyze is a function of its two texts: the decision
\* a call returns (label, intensity and score) is the only decision Analyze
\* can return for these texts, also when two or more labels share the top
\* score of a text.
C38_AnalyzeIsFunction ==
    emoKind = "heuristic" => Analyze(emoUser, emoAi) = {emoOut.Decision}

\* the assistant text "calm down" scores 3 for tender ("calm") and 3 for
\* comfort ("calm down"): one call returns tender
C38_TieReturnsTender ==
    /\ emoKind = "heuristic" /\ emoUser = "ok" /\ emoAi = "calm down"
    /\ emoOut.Decision.Emotion = Tender

\* and another call on the same texts returns comfort
C38_TieReturnsComfort ==
    /\ emoKind = "heuristic" /\ emoUser = "ok" /\ emoAi = "calm down"
    /\ emoOut.Decision.Emotion = Comfort

\* a tie between happy and excited changes the intensity as well
C38_TieChangesScale ==
    /\ emoKind = "heuristic" /\ emoUser = "ok" /\ emoAi = "Great wow"
    /\ emoOut.Decision = Decision(Excited, 15, 3)

\* without a tie in either text the decision is determined by the texts
C38_FunctionWithoutTie ==
    (emoKind = "heuristic" /\ Cardinality(TopLabels(emoUser)) <= 1
        /\ Cardinality(TopLabels(emoAi)) <= 1)
    => Analyze(emoUser, emoAi) = {emoOut.Decision}


\* the last step ran a conversation step, on the text of a text message or on a transcript
StepRan == sessPc = "handled" /\ CountCalls("LoadTranscript") > 0

StepText == IF lastMsg.Type = "text" THEN lastMsg.text ELSE lastEnv.asr.text

\* the step as processUserText ran it
StepTrace == conversationTrace(connState, StepText, lastEnv)

IsStepCall(call) == call.fn # "TranscribeBuffer"

IsStepEvent(event) == event.Type = "result" /\ event.Data.type # "asr"

IsCall(action) == action.act = "call"

IsEvent(action) == action.act = "event"

CallsOf(trace) ==
    LET picked == SelectSeq(trace, IsCall) IN [i \in DOMAIN picked |-> picked[i].call]

EventsOf(trace) ==
    LET picked == SelectSeq(trace, IsEvent) IN [i \in DOMAIN picked |-> picked[i].event]

\* the place of an action in the order of the step
StepRank(action) ==
    IF action.act = "call"
    THEN CASE action.call.fn = "LoadTranscript" -> 0
           [] action.call.fn = "SaveMessage" /\ action.call.sender = "user" -> 1
           [] action.call.fn \in {"GenerateResponse", "StreamResponse"} -> 3
           [] action.call.fn = "SaveMessage" /\ action.call.sender = "assistant" -> 6
           [] action.call.fn = "SynthesizeToBuffer" -> 7
    ELSE CASE action.event.Data.type = "user" -> 2
           [] action.event.Data.type = "ai_delta" -> 4
           [] action.event.Data.type = "ai" -> 5
           [] action.event.Data.type = "tts" -> 8

\* the place of an ai_delta event
DeltaRank == StepRank(Wrote(sendInfo(SessionID, [type |-> "ai_delta", text |-> ""])))

\* every action comes after the actions that precede it in the order, each
\* taken once, with any number of ai_delta events between the model call and
\* the final ai event; ranks are the places of the actions of a step
InStepOrder(ranks) ==
    \A delta \in {DeltaRank} :
        \A j \in 1 .. Len(ranks) :
            /\ \A i \in 1 .. j - 1 :
                  ranks[i] < ranks[j] \/ (ranks[i] = delta /\ ranks[j] = delta)
            /\ \A r \in (0 .. ranks[j] - 1) \ {delta} : \E i \in 1 .. j - 1 : ranks[i] = r

RECURSIVE RanksOf(_)
RanksOf(trace) ==
    IF Len(trace) = 0 THEN <<>> ELSE <<StepRank(Head(trace))>> \o RanksOf(Tail(trace))

StepOrdered ==
    StepRan =>
        \A trace \in {StepTrace} :
            /\ CallsOf(trace) = SelectSeq(calls, IsStepCall)
            /\ EventsOf(trace) = SelectSeq(events, IsStepEvent)
            /\ \A ranks \in {RanksOf(trace)} : InStepOrder(ranks)
            /\ Cardinality(ResultEvents("tts")) <= 1
            /\ lastEnv.saveUserErr # "" => ModelInvocations = 0

\* the handler is at ReadJSON: a message that arrives is taken
AtRead == ENABLED Handle(Inbound("text", "", TRUE, NoAudio, "hi", NoConfig), DefaultEnv)

UtteranceHeard ==
    /\ uttFinal /\ uttTranscript # ""
    /\ toServer = <<>> /\ toClient = <<>>

\* C40: with the bundled web client connected to the session handler, one
\* spoken utterance (audio chunks ending with a final chunk, a non-empty
\* transcript) results in exactly one persisted user turn and one model
\* invocation: the client does not send the transcript of the final asr
\* event back as a text message.
C40_OneTurnPerUtterance ==
    UtteranceHeard => (userTurns = 1 /\ modelCalls = 1 /\ resent = 0)

\* the utterance was persisted twice and the model invoked twice
C40_TurnTwice ==
    /\ UtteranceHeard
    /\ uttSent = 3
    /\ resent = 1 /\ userTurns = 2 /\ modelCalls = 2

\* every utterance with a transcript ends with two turns and two invocations
C40_AlwaysTwice ==
    UtteranceHeard => (userTurns = 2 /\ modelCalls = 2 /\ resent = 1)

\* the handler on its own runs one conversation step per flush: before the
\* client has read the final asr event there is one turn and one invocation
C40_HandlerOnce ==
    (uttTranscript # "" /\ resent = 0) => (userTurns = 1 /\ modelCalls = 1)

====
